---- MODULE Spec2Model ----
(***************************************************************************)
(* Avro C++ parsing / resolution core: schema -> grammar of symbols, the   *)
(* pushdown parser that drives the validating encoder and decoder, and the *)
(* resolving decoder (field reordering, skipping, default injection).      *)
(*                                                                         *)
(* A production is a sequence of symbols in the order the source stores    *)
(* it: the LAST element is the first one processed, so that appending a    *)
(* production to the parsing stack leaves its first symbol on top.  The    *)
(* parsing stack is a sequence whose last element is the top.              *)
(***************************************************************************)
EXTENDS Integers, Sequences, FiniteSets, TLC

(***************************************************************************)
(* Bounds of the model.                                                    *)
(***************************************************************************)
MaxCalls == 4        \* calls a client makes on one encoder or decoder

(***************************************************************************)
(* Generic helpers.                                                        *)
(***************************************************************************)
RECURSIVE Reverse(_)
Reverse(s) == IF Len(s) = 0 THEN <<>> ELSE Append(Reverse(Tail(s)), Head(s))

Top(s) == s[Len(s)]

Pop(s) == SubSeq(s, 1, Len(s) - 1)

RECURSIVE Flatten(_)
Flatten(ss) == IF Len(ss) = 0 THEN <<>> ELSE Head(ss) \o Flatten(Tail(ss))

Range(s) == {s[i] : i \in 1..Len(s)}

(***************************************************************************)
(* Schema nodes.  A primitive node carries only its type; a record carries *)
(* its name, its leaves, the names of its fields and their default values; *)
(* an array carries one leaf.  NoDefault is the default-constructed        *)
(* GenericDatum (type AVRO_NULL) a field without "default" gets.           *)
(***************************************************************************)
Prim(t) == [type |-> t]

NullDatum == [type |-> "null", value |-> 0]

Datum(t, v) == [type |-> t, value |-> v]

RecordNode(n, ls, ns, dv) ==
  [type |-> "record", name |-> n, leaves |-> ls, names |-> ns, defaultValues |-> dv]

ArrayNode(item) == [type |-> "array", leaves |-> <<item>>]

\* A map carries the type of its keys, string, as leaf 0 and the type of
\* its values as leaf 1.
MapNode(values) == [type |-> "map", leaves |-> <<[type |-> "string"], values>>]

\* A fixed carries its name and its size.
FixedNode(n, size) == [type |-> "fixed", name |-> n, size |-> size]

\* A union carries its branches as leaves.
UnionNode(types) == [type |-> "union", leaves |-> types]

PrimitiveTypes == {"null", "boolean", "int", "long", "float", "double", "string", "bytes"}

isPrimitive(t) == t \in PrimitiveTypes

(***************************************************************************)
(* Binary encoding of the leaves (Avro 1.x binary encoding).               *)
(* int / long: zig-zag, then little-endian base-128 varint.                *)
(* float / double: the value is held as its IEEE-754 bytes, most           *)
(* significant first, and is written little-endian.                        *)
(* string / bytes: long length, then the raw bytes.                        *)
(***************************************************************************)
encodeZigzag(n) == IF n >= 0 THEN 2 * n ELSE (-2 * n) - 1

decodeZigzag(u) == IF u % 2 = 0 THEN u \div 2 ELSE -((u + 1) \div 2)

RECURSIVE encodeVarint(_)
encodeVarint(u) ==
  IF u < 128 THEN <<u>> ELSE <<(u % 128) + 128>> \o encodeVarint(u \div 128)

binEncodeLong(n) == encodeVarint(encodeZigzag(n))

binEncodeBool(b) == IF b THEN <<1>> ELSE <<0>>

binEncodeFloat(f) == Reverse(f)

binEncodeString(s) == binEncodeLong(Len(s)) \o s

\* The bytes the binary encoder writes for one leaf of the given kind.
binEncodeLeaf(k, v) ==
  CASE k = "Null" -> <<>>
    [] k = "Bool" -> binEncodeBool(v)
    [] k \in {"Int", "Long"} -> binEncodeLong(v)
    [] k \in {"Float", "Double"} -> binEncodeFloat(v)
    [] k \in {"String", "Bytes"} -> binEncodeString(v)

(***************************************************************************)
(* Binary decoding.  A read returns [ok, val, pos]: ok is FALSE when the   *)
(* stream ends inside the value (the byte source reports EOF).             *)
(***************************************************************************)
ReadFail(pos) == [ok |-> FALSE, val |-> 0, pos |-> pos]

RECURSIVE decodeVarint(_, _, _, _)
decodeVarint(data, pos, shift, acc) ==
  IF pos >= Len(data) THEN ReadFail(pos)
  ELSE LET b == data[pos + 1]
           a == acc + (b % 128) * shift
       IN IF b < 128 THEN [ok |-> TRUE, val |-> a, pos |-> pos + 1]
          ELSE decodeVarint(data, pos + 1, shift * 128, a)

binDecodeLong(data, pos) ==
  LET r == decodeVarint(data, pos, 1, 0)
  IN IF r.ok THEN [r EXCEPT !.val = decodeZigzag(r.val)] ELSE r

binDecodeBool(data, pos) ==
  IF pos >= Len(data) THEN ReadFail(pos)
  ELSE [ok |-> TRUE, val |-> (data[pos + 1] # 0), pos |-> pos + 1]

binDecodeFixedLen(data, pos, n) ==
  IF pos + n > Len(data) THEN ReadFail(pos)
  ELSE [ok |-> TRUE, val |-> SubSeq(data, pos + 1, pos + n), pos |-> pos + n]

binDecodeFloat(data, pos, n) ==
  LET r == binDecodeFixedLen(data, pos, n)
  IN IF r.ok THEN [r EXCEPT !.val = Reverse(r.val)] ELSE r

binDecodeString(data, pos) ==
  LET l == binDecodeLong(data, pos)
  IN IF ~l.ok THEN l
     ELSE IF l.val < 0 THEN ReadFail(l.pos)
     ELSE binDecodeFixedLen(data, l.pos, l.val)

\* What the binary decoder returns for one leaf of the given kind.
binDecodeLeaf(k, data, pos) ==
  CASE k = "Null" -> [ok |-> TRUE, val |-> 0, pos |-> pos]
    [] k = "Bool" -> binDecodeBool(data, pos)
    [] k \in {"Int", "Long"} -> binDecodeLong(data, pos)
    [] k = "Float" -> binDecodeFloat(data, pos, 4)
    [] k = "Double" -> binDecodeFloat(data, pos, 8)
    [] k \in {"String", "Bytes"} -> binDecodeString(data, pos)

(***************************************************************************)
(* Symbols.                                                                *)
(***************************************************************************)
LeafKinds == {"Null", "Bool", "Int", "Long", "Float", "Double", "String", "Bytes"}

TerminalKinds == LeafKinds \cup {"Fixed", "Enum", "ArrayStart", "ArrayEnd",
                                 "MapStart", "MapEnd", "Union"}

ImplicitActionKinds == {"RecordStart", "RecordEnd", "Field", "Record", "SizeList",
                        "WriterUnion", "DefaultStart", "DefaultEnd"}

isTerminal(k) == k \in TerminalKinds

isImplicitAction(k) == k \in ImplicitActionKinds

Sym(k) == [kind |-> k]

rootSymbol(main, backup) == [kind |-> "Root", main |-> main, backup |-> backup]

repeater(read, skip, isArray) ==
  [kind |-> "Repeater", count |-> 0, isArray |-> isArray, prod |-> read, skipProd |-> skip]

indirect(p) == [kind |-> "Indirect", prod |-> p]

sizeCheckSymbol(size) == [kind |-> "SizeCheck", size |-> size]

skipStart == Sym("SkipStart")

resolveSymbol(from, to) == [kind |-> "Resolve", from |-> from, to |-> to]

sizeListAction(order) == [kind |-> "SizeList", order |-> order]

recordAction == Sym("Record")

defaultStartAction(bytes) == [kind |-> "DefaultStart", bytes |-> bytes]

defaultEndAction == Sym("DefaultEnd")

errorSymbol == Sym("Error")

fieldSymbol(n) == [kind |-> "Field", name |-> n]

\* The productions of a union's branches, branch 0 first.
alternative(v) == [kind |-> "Alternative", branches |-> v]

unionSymbol == Sym("Union")

writerUnionAction == Sym("WriterUnion")

\* The reader branch j a non-union writer is read as, and the production p
\* that reads it.
unionAdjustSymbol(j, p) == [kind |-> "UnionAdjust", branch |-> j, prod |-> p]

\* The terminal symbol of a primitive schema type.
KindOfType(t) ==
  CASE t = "null" -> "Null"
    [] t = "boolean" -> "Bool"
    [] t = "int" -> "Int"
    [] t = "long" -> "Long"
    [] t = "float" -> "Float"
    [] t = "double" -> "Double"
    [] t = "string" -> "String"
    [] t = "bytes" -> "Bytes"

(***************************************************************************)
(* ValidatingGrammarGenerator::doGenerate.                                 *)
(***************************************************************************)
RECURSIVE doGenerate(_)

\* The loop over the leaves of a record: each field's production is copied
\* in reverse onto the result.
RECURSIVE recordLoop(_, _, _)
recordLoop(n, i, result) ==
  IF i > Len(n.leaves) THEN result
  ELSE recordLoop(n, i + 1, result \o Reverse(doGenerate(n.leaves[i])))

\* case AVRO_MAP: v is the production of the values with the key's symbol
\* pushed onto it.
mapProduction(v) == <<Sym("MapEnd"), repeater(v, v, FALSE), Sym("MapStart")>>

\* A bug: the record's production is left in the order the loop built it.
doGenerateUnreversed(n) ==
  CASE isPrimitive(n.type) -> <<Sym(KindOfType(n.type))>>
    [] n.type = "record" -> recordLoop(n, 1, <<>>)
    [] n.type = "array" ->
         LET p == doGenerate(n.leaves[1])
         IN <<Sym("ArrayEnd"), repeater(p, p, TRUE), Sym("ArrayStart")>>
    [] n.type = "map" -> mapProduction(Append(doGenerate(n.leaves[2]), Sym("String")))
    [] n.type = "fixed" -> <<sizeCheckSymbol(n.size), Sym("Fixed")>>
    [] n.type = "union" ->
         <<alternative([i \in 1..Len(n.leaves) |-> doGenerate(n.leaves[i])]),
           unionSymbol>>

doGenerate(n) ==
  CASE isPrimitive(n.type) -> <<Sym(KindOfType(n.type))>>
    [] n.type = "record" -> Reverse(recordLoop(n, 1, <<>>))
    [] n.type = "array" ->
         LET p == doGenerate(n.leaves[1])
         IN <<Sym("ArrayEnd"), repeater(p, p, TRUE), Sym("ArrayStart")>>
    [] n.type = "map" -> mapProduction(Append(doGenerate(n.leaves[2]), Sym("String")))
    [] n.type = "fixed" -> <<sizeCheckSymbol(n.size), Sym("Fixed")>>
    [] n.type = "union" ->
         <<alternative([i \in 1..Len(n.leaves) |-> doGenerate(n.leaves[i])]),
           unionSymbol>>

\* ValidatingGrammarGenerator::generate(const ValidSchema&)
generate(schema) == rootSymbol(doGenerate(schema), <<>>)

(***************************************************************************)
(* SimpleParser.  A parser lives inside an encoder or a decoder object c   *)
(* (a record); c.stack is the parsing stack, c.err the failure raised so   *)
(* far ("" for none) and c.ret the kind returned by the last advance.      *)
(* A decoder object also has: input / pos, the byte source of the decoder  *)
(* it was constructed over and that decoder's cursor; binData / binPos,    *)
(* the same for the handler's scratch binary decoder; base_, the decoder   *)
(* in use ("base", "bin" or "null"); backup_, the saved one.               *)
(***************************************************************************)
fail(c, e) == [c EXCEPT !.err = e]

append(c, prod) == [c EXCEPT !.stack = @ \o prod]

pop(c) == [c EXCEPT !.stack = Pop(@)]

top(c) == Top(c.stack).kind

\* SimpleParser::selectBranch: the Alternative on top is replaced by the
\* production of its branch n.
selectBranch(c, n) ==
  IF c.err # "" THEN c
  ELSE IF top(c) # "Alternative" THEN fail(c, "GrammarViolation")
  ELSE IF n < 0 \/ n >= Len(Top(c.stack).branches) THEN fail(c, "RangeError")
  ELSE append(pop(c), Top(c.stack).branches[n + 1])

\* SimpleParser::unionAdjust: the UnionAdjust on top is replaced by its
\* production; its reader branch is returned (left in val).
unionAdjust(c) ==
  IF c.err # "" THEN c
  ELSE IF top(c) # "UnionAdjust" THEN fail(c, "GrammarViolation")
  ELSE [append(pop(c), Top(c.stack).prod) EXCEPT !.val = Top(c.stack).branch]

\* A leaf read on the decoder that base_ designates.
liveRead(c, k) ==
  IF c.base_ = "base" THEN binDecodeLeaf(k, c.input, c.pos)
  ELSE IF c.base_ = "bin" THEN binDecodeLeaf(k, c.binData, c.binPos)
  ELSE ReadFail(0)

\* The decoder after the read r on the decoder that base_ designates.
liveMove(c, r) ==
  IF ~r.ok THEN fail(c, IF c.base_ = "null" THEN "NullDecoder" ELSE "IOError")
  ELSE IF c.base_ = "base" THEN [c EXCEPT !.pos = r.pos]
  ELSE [c EXCEPT !.binPos = r.pos]

\* The decoder after the read r, with the value read left in val.
liveTake(a, r) == IF r.ok THEN [liveMove(a, r) EXCEPT !.val = r.val] ELSE liveMove(a, r)

\* BinaryDecoder::arrayStart / arrayNext: the item count of the next block;
\* a negative count is followed by the block's byte size.
binItemCount(data, pos) ==
  LET r == binDecodeLong(data, pos)
  IN IF ~r.ok THEN r
     ELSE IF r.val < 0
          THEN LET z == binDecodeLong(data, r.pos)
               IN IF z.ok THEN [ok |-> TRUE, val |-> -r.val, pos |-> z.pos] ELSE z
          ELSE r

\* BinaryDecoder::skipArray: blocks that carry a byte size are jumped over;
\* the count of the first block without one is returned.
RECURSIVE binSkipArray(_, _)
binSkipArray(data, pos) ==
  LET r == binDecodeLong(data, pos)
  IN IF ~r.ok THEN r
     ELSE IF r.val < 0
          THEN LET z == binDecodeLong(data, r.pos)
               IN IF ~z.ok THEN z
                  ELSE IF z.val < 0 \/ z.pos + z.val > Len(data) THEN ReadFail(z.pos)
                  ELSE binSkipArray(data, z.pos + z.val)
          ELSE r

(***************************************************************************)
(* SimpleParser::skip, on the decoder the parser was constructed with:     *)
(* consumes the subtree on top of the stack, until the stack is shorter    *)
(* than sz.                                                                *)
(***************************************************************************)
RECURSIVE skip(_, _)
skip(c, sz) ==
  IF c.err # "" \/ Len(c.stack) < sz THEN c
  ELSE LET t == Top(c.stack) IN
    CASE t.kind \in LeafKinds ->
           LET r == binDecodeLeaf(t.kind, c.input, c.pos)
           IN IF r.ok THEN skip([pop(c) EXCEPT !.pos = r.pos], sz)
              ELSE fail(c, "IOError")
      [] t.kind = "Indirect" -> skip(append(pop(c), t.prod), sz)
      [] t.kind = "Union" ->
           LET r == binDecodeLong(c.input, c.pos)
           IN IF r.ok THEN skip(selectBranch([pop(c) EXCEPT !.pos = r.pos], r.val), sz)
              ELSE fail(c, "IOError")
      [] t.kind = "ArrayStart" ->
           LET r == binSkipArray(c.input, c.pos)
               c1 == pop(c)
           IN IF ~r.ok THEN fail(c, "IOError")
              ELSE IF top(c1) # "Repeater" THEN fail(c1, "GrammarViolation")
              ELSE IF r.val = 0 THEN skip([pop(c1) EXCEPT !.pos = r.pos], sz)
              ELSE skip([c1 EXCEPT !.pos = r.pos,
                                   !.stack[Len(c1.stack)].count = r.val], sz)
      [] t.kind = "ArrayEnd" -> skip(pop(c), sz)
      [] t.kind = "Repeater" ->
           IF t.count # 0
           THEN skip(append([c EXCEPT !.stack[Len(c.stack)].count = t.count - 1],
                            t.skipProd), sz)
           ELSE LET r == binItemCount(c.input, c.pos)
                IN IF ~r.ok THEN fail(c, "IOError")
                   ELSE IF r.val = 0 THEN skip([pop(c) EXCEPT !.pos = r.pos], sz)
                   ELSE skip(append([c EXCEPT !.pos = r.pos,
                                              !.stack[Len(c.stack)].count = r.val - 1],
                                    t.skipProd), sz)
      [] OTHER -> fail(c, "GrammarViolation")

(***************************************************************************)
(* The action handlers.  DummyHandler (validating codec) does nothing.     *)
(* ResolvingDecoderHandler::handle swaps the decoder in use at             *)
(* DefaultStart and restores the saved one at DefaultEnd.                  *)
(***************************************************************************)
\* A bug: DefaultStart does not init the scratch decoder over the new bytes.
ResolvingDecoderHandler_handleNoInit(c, s) ==
  CASE s.kind = "DefaultStart" ->
         [c EXCEPT !.binData = s.bytes, !.backup_ = c.base_, !.base_ = "bin"]
    [] s.kind = "DefaultEnd" ->
         [c EXCEPT !.base_ = c.backup_, !.backup_ = "null"]
    [] OTHER -> c

\* A bug: DefaultStart saves the decoder in use but does not swap it.
ResolvingDecoderHandler_handleNoSwap(c, s) ==
  CASE s.kind = "DefaultStart" ->
         [c EXCEPT !.binData = s.bytes, !.backup_ = c.base_, !.binPos = 0]
    [] s.kind = "DefaultEnd" ->
         [c EXCEPT !.base_ = c.backup_, !.backup_ = "null"]
    [] OTHER -> c

\* A bug: DefaultEnd empties the saved slot without restoring from it.
ResolvingDecoderHandler_handleNoRestore(c, s) ==
  CASE s.kind = "DefaultStart" ->
         [c EXCEPT !.binData = s.bytes, !.backup_ = c.base_,
                   !.base_ = "bin", !.binPos = 0]
    [] s.kind = "DefaultEnd" -> [c EXCEPT !.backup_ = "null"]
    [] OTHER -> c

\* A bug: at WriterUnion no branch index is read; branch 0 is returned.
ResolvingDecoderHandler_handleFirstBranch(c, s) ==
  CASE s.kind = "WriterUnion" -> [c EXCEPT !.val = 0]
    [] s.kind = "DefaultStart" ->
         [c EXCEPT !.binData = s.bytes, !.backup_ = c.base_,
                   !.base_ = "bin", !.binPos = 0]
    [] s.kind = "DefaultEnd" ->
         [c EXCEPT !.base_ = c.backup_, !.backup_ = "null"]
    [] OTHER -> c

\* The value handle returns is left in val: at WriterUnion, the branch index
\* read from the decoder in use.
ResolvingDecoderHandler_handle(c, s) ==
  CASE s.kind = "WriterUnion" -> liveTake(c, liveRead(c, "Long"))
    [] s.kind = "DefaultStart" ->
         [c EXCEPT !.binData = s.bytes, !.backup_ = c.base_,
                   !.base_ = "bin", !.binPos = 0]
    [] s.kind = "DefaultEnd" ->
         [c EXCEPT !.base_ = c.backup_, !.backup_ = "null"]
    [] OTHER -> c

DummyHandler_handle(c, s) == c

\* A token handed to the JSON generator.
Tok(t, v) == [tok |-> t, val |-> v]

\* JsonHandler::handle
JsonHandler_handle(c, s) ==
  CASE s.kind = "RecordStart" -> [c EXCEPT !.out = Append(@, Tok("objectStart", 0))]
    [] s.kind = "RecordEnd" -> [c EXCEPT !.out = Append(@, Tok("objectEnd", 0))]
    [] s.kind = "Field" -> [c EXCEPT !.out = Append(@, Tok("string", s.name))]
    [] OTHER -> c

\* The doubles that the JSON parser gives for the three strings.
specialDouble(str) ==
  CASE str = "Infinity" -> <<127, 240, 0, 0, 0, 0, 0, 0>>
    [] str = "-Infinity" -> <<255, 240, 0, 0, 0, 0, 0, 0>>
    [] str = "NaN" -> <<127, 248, 0, 0, 0, 0, 0, 0>>

\* JsonParser::expectToken(tk): the next token of the input is taken; it has
\* to be of kind tk, or, where a double is expected, one of the strings
\* "NaN", "Infinity" and "-Infinity".  The token's value is left in val.
expectToken(c, tk) ==
  IF c.err # "" THEN c
  ELSE IF c.pos >= Len(c.input) THEN fail(c, "UnexpectedToken")
  ELSE IF c.input[c.pos + 1].tok = tk
  THEN [c EXCEPT !.pos = @ + 1, !.val = c.input[c.pos + 1].val]
  ELSE IF /\ tk = "double" /\ c.input[c.pos + 1].tok = "string"
          /\ c.input[c.pos + 1].val \in {"NaN", "Infinity", "-Infinity"}
  THEN [c EXCEPT !.pos = @ + 1, !.val = specialDouble(c.input[c.pos + 1].val)]
  ELSE fail([c EXCEPT !.pos = @ + 1], "UnexpectedToken")

\* if (s.extra<string>() != in_.stringValue()) throw Exception("Incorrect field")
sameField(c1, name) ==
  IF c1.err # "" THEN c1
  ELSE IF c1.val # name THEN fail(c1, "IncorrectField")
  ELSE c1

\* A bug: the field name is read and not compared.
JsonDecoderHandler_handleAnyField(c, s) ==
  CASE s.kind = "RecordStart" -> expectToken(c, "objectStart")
    [] s.kind = "RecordEnd" -> expectToken(c, "objectEnd")
    [] s.kind = "Field" -> expectToken(c, "string")
    [] OTHER -> c

\* JsonDecoderHandler::handle
JsonDecoderHandler_handle(c, s) ==
  CASE s.kind = "RecordStart" -> expectToken(c, "objectStart")
    [] s.kind = "RecordEnd" -> expectToken(c, "objectEnd")
    [] s.kind = "Field" -> sameField(expectToken(c, "string"), s.name)
    [] OTHER -> c

handle(c, s) ==
  IF c.handler = "resolving" THEN ResolvingDecoderHandler_handle(c, s)
  ELSE IF c.handler = "json" THEN JsonHandler_handle(c, s)
  ELSE IF c.handler = "jsonDecoder" THEN JsonDecoderHandler_handle(c, s)
  ELSE DummyHandler_handle(c, s)

(***************************************************************************)
(* SimpleParser::advance(k): pops symbols, performing the actions met on   *)
(* the way, until the terminal k (or a Resolve symbol that promotes to k)  *)
(* is on top; any other terminal is a grammar violation.                   *)
(***************************************************************************)
\* After the handler has read the writer's branch index, the Alternative
\* under the WriterUnion symbol is narrowed to that branch.
afterWriterUnion(h) == selectBranch(pop(h), h.val)

RECURSIVE advance(_, _)
advance(c, k) ==
  IF c.err # "" THEN c
  ELSE LET s == Top(c.stack) IN
    IF s.kind = k THEN [pop(c) EXCEPT !.ret = k]
    ELSE IF isTerminal(s.kind) THEN fail(c, "GrammarViolation")
    ELSE CASE s.kind = "Root" -> advance(append(c, s.main), k)
           [] s.kind = "Indirect" -> advance(append(pop(c), s.prod), k)
           [] s.kind = "Repeater" ->
                IF s.count = 0 THEN fail(c, "GrammarViolation")
                ELSE advance(append([c EXCEPT !.stack[Len(c.stack)].count = s.count - 1],
                                    s.prod), k)
           [] s.kind = "Error" -> fail(c, "SchemaIncompatible")
           [] s.kind = "Resolve" ->
                IF s.to = k THEN [pop(c) EXCEPT !.ret = s.from]
                ELSE fail(c, "GrammarViolation")
           [] s.kind = "SkipStart" ->
                LET c1 == pop(c) IN advance(skip(c1, Len(c1.stack)), k)
           [] s.kind = "WriterUnion" -> advance(afterWriterUnion(handle(c, s)), k)
           [] isImplicitAction(s.kind) /\ s.kind # "WriterUnion" ->
                advance(pop(handle(c, s)), k)
           [] OTHER -> fail(c, "GrammarViolation")

\* SimpleParser::processImplicitActions
RECURSIVE processImplicitActions(_)
processImplicitActions(c) ==
  IF c.err # "" THEN c
  ELSE LET s == Top(c.stack) IN
    IF isImplicitAction(s.kind) THEN processImplicitActions(pop(handle(c, s)))
    ELSE IF s.kind = "SkipStart"
         THEN LET c1 == pop(c) IN processImplicitActions(skip(c1, Len(c1.stack)))
         ELSE c

\* SimpleParser::setRepeatCount
setRepeatCount(c, n) ==
  IF c.err # "" THEN c
  ELSE IF top(c) # "Repeater" THEN fail(c, "GrammarViolation")
  ELSE IF Top(c.stack).count # 0 THEN fail(c, "GrammarViolation")
  ELSE [c EXCEPT !.stack[Len(c.stack)].count = n]

\* SimpleParser::popRepeater
popRepeaterTop(c1) ==
  IF c1.err # "" THEN c1
  ELSE IF top(c1) # "Repeater" THEN fail(c1, "GrammarViolation")
  ELSE IF Top(c1.stack).count # 0 THEN fail(c1, "GrammarViolation")
  ELSE pop(c1)

popRepeater(c) == popRepeaterTop(processImplicitActions(c))

\* SimpleParser::sizeList: the field order of the SizeList symbol on top.
sizeList(c) ==
  IF c.err # "" THEN c
  ELSE IF top(c) # "SizeList" THEN fail(c, "GrammarViolation")
  ELSE [pop(c) EXCEPT !.order = Top(c.stack).order]

(***************************************************************************)
(* ValidatingEncoder over a binary encoder: every operation first advances *)
(* the parser and then performs the operation on the base encoder.         *)
(***************************************************************************)
\* encodeNull, encodeBool, encodeInt, encodeLong, encodeFloat, encodeDouble,
\* encodeString, encodeBytes
\* The base encoder writes bytes, unless the parser has failed.
baseWrite(a, bytes) == IF a.err # "" THEN a ELSE [a EXCEPT !.out = @ \o bytes]

\* A bug: the base encoder is called before the parser is asked.
ValidatingEncoder_encodeBaseFirst(e, k, v) ==
  [advance(e, k) EXCEPT !.out = e.out \o binEncodeLeaf(k, v)]

ValidatingEncoder_encode(e, k, v) == baseWrite(advance(e, k), binEncodeLeaf(k, v))

popUnsized(c1) ==
  IF c1.err # "" THEN c1
  ELSE IF top(c1) # "SizeCheck" THEN fail(c1, "GrammarViolation")
  ELSE pop(c1)

\* SimpleParser::assertSize(n): the symbol on top must be SizeCheck(m), which
\* is popped, with m = n.
assertSize(c, n) ==
  IF c.err # "" THEN c
  ELSE IF top(c) # "SizeCheck" THEN fail(c, "GrammarViolation")
  ELSE IF Top(c.stack).size # n THEN fail(pop(c), "SizeMismatch")
  ELSE pop(c)

\* A bug: the size is popped and not compared.
ValidatingEncoder_encodeFixedAnySize(e, bytes) ==
  baseWrite(popUnsized(advance(e, "Fixed")), bytes)

\* encodeFixed(bytes, len): the binary encoder writes the bytes as they are.
ValidatingEncoder_encodeFixed(e, bytes) ==
  baseWrite(assertSize(advance(e, "Fixed"), Len(bytes)), bytes)

ValidatingEncoder_arrayStart(e) == advance(e, "ArrayStart")

popUncounted(c1) ==
  IF c1.err # "" THEN c1
  ELSE IF top(c1) # "Repeater" THEN fail(c1, "GrammarViolation")
  ELSE pop(c1)

\* A bug: the repeater is popped whatever its count.
ValidatingEncoder_arrayEndUncounted(e) ==
  baseWrite(advance(popUncounted(processImplicitActions(e)), "ArrayEnd"), binEncodeLong(0))

ValidatingEncoder_arrayEnd(e) ==
  baseWrite(advance(popRepeater(e), "ArrayEnd"), binEncodeLong(0))

ValidatingEncoder_mapStart(e) == advance(e, "MapStart")

ValidatingEncoder_mapEnd(e) ==
  baseWrite(advance(popRepeater(e), "MapEnd"), binEncodeLong(0))

ValidatingEncoder_setItemCount(e, count) ==
  baseWrite(setRepeatCount(e, count), IF count = 0 THEN <<>> ELSE binEncodeLong(count))

\* A bug: startItem does not look at the parsing stack.
ValidatingEncoder_startItemUnchecked(e) == e

ValidatingEncoder_startItem(e) ==
  IF top(e) # "Repeater" THEN fail(e, "GrammarViolation") ELSE e

ValidatingEncoder_encodeUnionIndex(e, j) ==
  baseWrite(selectBranch(advance(e, "Union"), j), binEncodeLong(j))

\* ValidatingEncoder constructor
ValidatingEncoder(s) ==
  [stack |-> <<generate(s)>>, handler |-> "dummy", out |-> <<>>, err |-> "", ret |-> ""]

(***************************************************************************)
(* ValidatingDecoder over a binary decoder.                                *)
(***************************************************************************)
\* decodeNull, decodeBool, decodeInt, decodeLong, decodeFloat, decodeDouble,
\* decodeString, decodeBytes: the value read is left in val.
\* The decoder in use reads a leaf of kind k, unless the parser has failed.
baseRead(a, k) == IF a.err # "" THEN a ELSE liveTake(a, liveRead(a, k))

\* A bug: decodeDouble calls the base decoder's decodeFloat.
ValidatingDecoder_decodeDoubleAsFloat(d, k) ==
  baseRead(advance(d, k), IF k = "Double" THEN "Float" ELSE k)

ValidatingDecoder_decode(d, k) == baseRead(advance(d, k), k)

\* The decoder in use reads n bytes, unless the parser has failed.
baseReadFixed(a, n) ==
  IF a.err # "" THEN a
  ELSE liveTake(a, IF a.base_ = "base" THEN binDecodeFixedLen(a.input, a.pos, n)
                   ELSE IF a.base_ = "bin" THEN binDecodeFixedLen(a.binData, a.binPos, n)
                   ELSE ReadFail(0))

\* A bug: the size is popped and not compared.
ValidatingDecoder_decodeFixedAnySize(d, n) ==
  baseReadFixed(popUnsized(advance(d, "Fixed")), n)

ValidatingDecoder_decodeFixed(d, n) == baseReadFixed(assertSize(advance(d, "Fixed"), n), n)

liveItemCount(c) ==
  IF c.base_ = "base" THEN binItemCount(c.input, c.pos)
  ELSE IF c.base_ = "bin" THEN binItemCount(c.binData, c.binPos)
  ELSE ReadFail(0)

\* The decoder in use reads an item count, unless the parser has failed.
baseItemCount(a) == IF a.err # "" THEN a ELSE liveTake(a, liveItemCount(a))

\* A bug: at the count 0 the repeater is popped and ArrayEnd left on the stack.
afterItemCountKeepEnd(b) ==
  IF b.err # "" THEN b
  ELSE IF b.val = 0 THEN popRepeater(b)
  ELSE setRepeatCount(b, b.val)

\* What arrayStart and arrayNext do with the item count b.val read from the base.
afterItemCount(b) ==
  IF b.err # "" THEN b
  ELSE IF b.val = 0 THEN advance(popRepeater(b), "ArrayEnd")
  ELSE setRepeatCount(b, b.val)

ValidatingDecoder_arrayStart(d) == afterItemCount(baseItemCount(advance(d, "ArrayStart")))

ValidatingDecoder_arrayNext(d) == afterItemCount(baseItemCount(d))

\* What mapStart and mapNext do with the item count b.val read from the base.
afterMapCount(b) ==
  IF b.err # "" THEN b
  ELSE IF b.val = 0 THEN advance(popRepeater(b), "MapEnd")
  ELSE setRepeatCount(b, b.val)

ValidatingDecoder_mapStart(d) == afterMapCount(baseItemCount(advance(d, "MapStart")))

ValidatingDecoder_mapNext(d) == afterMapCount(baseItemCount(d))

\* The branch index read from the base selects the branch of the Alternative.
afterUnionIndex(b) == selectBranch(b, b.val)

ValidatingDecoder_decodeUnionIndex(d) == afterUnionIndex(baseRead(advance(d, "Union"), "Long"))

\* ValidatingDecoder constructor followed by init(is)
ValidatingDecoder(s, is) ==
  [stack |-> <<generate(s)>>, handler |-> "dummy", base_ |-> "base", backup_ |-> "null",
   input |-> is, pos |-> 0, binData |-> <<>>, binPos |-> 0,
   err |-> "", ret |-> "", val |-> 0, order |-> <<>>]

\* A decoder that has not been constructed yet.
NoDecoder ==
  [stack |-> <<>>, handler |-> "dummy", base_ |-> "null", backup_ |-> "null",
   input |-> <<>>, pos |-> 0, binData |-> <<>>, binPos |-> 0,
   err |-> "", ret |-> "", val |-> 0, order |-> <<>>]

(***************************************************************************)
(* JSON encoder.  Its output is the sequence of tokens handed to the JSON  *)
(* generator.                                                              *)
(***************************************************************************)
\* JsonGrammarGenerator::doGenerate: a record is bracketed by RecordStart and
\* RecordEnd and every field is preceded by its Field(name) symbol.
RECURSIVE JsonGrammarGenerator_doGenerate(_)

RECURSIVE jsonRecordLoop(_, _, _)
jsonRecordLoop(n, i, result) ==
  IF i > Len(n.leaves) THEN result
  ELSE jsonRecordLoop(n, i + 1,
         Append(result, fieldSymbol(n.names[i]))
           \o Reverse(JsonGrammarGenerator_doGenerate(n.leaves[i])))

JsonGrammarGenerator_doGenerate(n) ==
  CASE isPrimitive(n.type) -> doGenerate(n)
    [] n.type = "record" ->
         Reverse(Append(jsonRecordLoop(n, 1, <<Sym("RecordStart")>>),
                        Sym("RecordEnd")))

\* The IEEE-754 special values, as the bytes of a float or a double.
isInfinity(f) == f \in {<<127, 128, 0, 0>>, <<127, 240, 0, 0, 0, 0, 0, 0>>}

isNegInfinity(f) == f \in {<<255, 128, 0, 0>>, <<255, 240, 0, 0, 0, 0, 0, 0>>}

isnan(f) == f \in {<<127, 192, 0, 0>>, <<127, 248, 0, 0, 0, 0, 0, 0>>}

\* A bug: the special values are written as numbers.
jsonLeafTokenNumbers(k, v) ==
  CASE k = "Null" -> Tok("null", 0)
    [] k = "Bool" -> Tok("bool", v)
    [] k \in {"Int", "Long"} -> Tok("long", v)
    [] k \in {"Float", "Double"} -> Tok("double", v)
    [] k \in {"String", "Bytes"} -> Tok("string", v)

\* The token the JSON encoder writes for one leaf.
jsonLeafToken(k, v) ==
  CASE k = "Null" -> Tok("null", 0)
    [] k = "Bool" -> Tok("bool", v)
    [] k \in {"Int", "Long"} -> Tok("long", v)
    [] k \in {"Float", "Double"} ->
         IF isInfinity(v) THEN Tok("string", "Infinity")
         ELSE IF isNegInfinity(v) THEN Tok("string", "-Infinity")
         ELSE IF isnan(v) THEN Tok("string", "NaN")
         ELSE Tok("double", v)
    [] k \in {"String", "Bytes"} -> Tok("string", v)

\* encodeNull .. encodeBytes
JsonEncoder_encode(e, k, v) == baseWrite(advance(e, k), <<jsonLeafToken(k, v)>>)

JsonEncoder_setItemCount(e, count) == setRepeatCount(e, count)

\* The check both startItem implementations make.
requireRepeater(a) ==
  IF a.err # "" THEN a
  ELSE IF top(a) # "Repeater" THEN fail(a, "GrammarViolation")
  ELSE a

JsonEncoder_startItem(e) == requireRepeater(processImplicitActions(e))

JsonEncoder_flush(e) == processImplicitActions(e)

\* JsonEncoder constructor
JsonEncoder(s) ==
  [stack |-> <<rootSymbol(JsonGrammarGenerator_doGenerate(s), <<>>)>>,
   handler |-> "json", out |-> <<>>, err |-> "", ret |-> ""]

(***************************************************************************)
(* GenericWriter::write: walks a datum and calls the encoder's leaf        *)
(* operation for every primitive it meets, a record's fields in order.     *)
(* A datum is [type, value]; the value of a record datum is the sequence   *)
(* of its fields' datums.                                                  *)
(***************************************************************************)
\* A binary encoder writing to a fresh memory stream.
BinaryEncoder ==
  [stack |-> <<>>, handler |-> "bin", out |-> <<>>, err |-> "", ret |-> ""]

\* The encoder's leaf operation, by the dynamic type of the encoder.
Encoder_encode(e, k, v) ==
  IF e.handler = "bin" THEN baseWrite(e, binEncodeLeaf(k, v))
  ELSE IF e.handler = "json" THEN JsonEncoder_encode(e, k, v)
  ELSE ValidatingEncoder_encode(e, k, v)

RECURSIVE GenericWriter_write(_, _)

RECURSIVE writeFields(_, _, _)
writeFields(e, fs, i) ==
  IF i > Len(fs) THEN e ELSE writeFields(GenericWriter_write(e, fs[i]), fs, i + 1)

GenericWriter_write(e, datum) ==
  IF datum.type = "record" THEN writeFields(e, datum.value, 1)
  ELSE Encoder_encode(e, KindOfType(datum.type), datum.value)

(***************************************************************************)
(* ResolvingGrammarGenerator.                                              *)
(***************************************************************************)
\* The bytes a binary encoder writes for a default value.
getAvroBinary(defaultValue) == GenericWriter_write(BinaryEncoder, defaultValue).out

\* The (name, index) pairs of a record's fields; indices count from 0.
fields(n) == [i \in 1..Len(n.names) |-> <<n.names[i], i - 1>>]

\* find_if(rf.begin(), rf.end(), equalsFirst(name)): the position in rf of the
\* first pair with that name, 0 for rf.end().
findField(rf, name) ==
  LET S == {j \in 1..Len(rf) : rf[j][1] = name}
  IN IF S = {} THEN 0 ELSE CHOOSE j \in S : \A l \in S : j <= l

\* A bug: the matched reader field stays in the pending list.
eraseForgotten(rf, j) == rf

\* rf.erase(it2)
erase(rf, j) == SubSeq(rf, 1, j - 1) \o SubSeq(rf, j + 1, Len(rf))

getWriterProduction(n) == doGenerate(n)

\* A bug: the production of a writer-only field is pushed without SkipStart.
skippedFieldUnmarked(p) == IF Len(p) = 1 THEN <<p[1]>> ELSE <<indirect(p)>>

\* What resolveRecords pushes for a writer field that no reader field matches.
skippedField(p) ==
  <<skipStart>> \o (IF Len(p) = 1 THEN <<p[1]>> ELSE <<indirect(p)>>)

RECURSIVE doGenerate2(_, _)

\* One round of the loop over the writer's fields; j is what find_if found.
\* st holds result, the pending reader fields rf and fieldOrder.
writerFieldStep(writer, reader, i, st, j) ==
  IF j # 0
  THEN [result |-> st.result
                     \o Reverse(doGenerate2(writer.leaves[i],
                                            reader.leaves[st.rf[j][2] + 1])),
        fieldOrder |-> Append(st.fieldOrder, st.rf[j][2]),
        rf |-> erase(st.rf, j)]
  ELSE [st EXCEPT !.result = @ \o skippedField(getWriterProduction(writer.leaves[i]))]

RECURSIVE writerFieldLoop(_, _, _, _)
writerFieldLoop(writer, reader, i, st) ==
  IF i > Len(writer.names) THEN st
  ELSE writerFieldLoop(writer, reader, i + 1,
         writerFieldStep(writer, reader, i, st, findField(st.rf, writer.names[i])))

\* The loop over the reader fields left in rf: each is read from its default.
RECURSIVE readerFieldLoop(_, _, _)
readerFieldLoop(reader, i, st) ==
  IF i > Len(st.rf) THEN st
  ELSE readerFieldLoop(reader, i + 1,
         [st EXCEPT
            !.fieldOrder = Append(@, st.rf[i][2]),
            !.result = @ \o <<defaultStartAction(
                                 getAvroBinary(reader.defaultValues[st.rf[i][2] + 1]))>>
                         \o Reverse(doGenerate2(reader.leaves[st.rf[i][2] + 1],
                                                reader.leaves[st.rf[i][2] + 1]))
                         \o <<defaultEndAction>>])

\* A bug: the record's production is not reversed.
finishRecordUnreversed(st) ==
  st.result \o <<sizeListAction(st.fieldOrder), recordAction>>

\* The end of resolveRecords: reverse, then SizeList and Record on top.
finishRecord(st) ==
  Reverse(st.result) \o <<sizeListAction(st.fieldOrder), recordAction>>

resolveRecords(writer, reader) ==
  finishRecord(
    readerFieldLoop(reader, 1,
      writerFieldLoop(writer, reader, 1,
        [result |-> <<>>, rf |-> fields(reader), fieldOrder |-> <<>>])))

\* The array case of doGenerate2.
resolveArray(p2, p) == <<Sym("ArrayEnd"), repeater(p2, p, TRUE), Sym("ArrayStart")>>

\* resolveUnion: one production per branch of the writer's union, each
\* resolved against the whole reader.
\* A bug: a writer union with a branch that the reader cannot read is no
\* grammar at all.
resolveUnionAllBranches(writer, reader) ==
  IF \E i \in 1..Len(writer.leaves) : doGenerate2(writer.leaves[i], reader) = <<errorSymbol>>
  THEN <<errorSymbol>>
  ELSE <<alternative([i \in 1..Len(writer.leaves) |-> doGenerate2(writer.leaves[i], reader)]),
         writerUnionAction>>

resolveUnion(writer, reader) ==
  <<alternative([i \in 1..Len(writer.leaves) |-> doGenerate2(writer.leaves[i], reader)]),
    writerUnionAction>>

\* Whether a node carries a name.
hasName(n) == n.type = "record"

\* The least element of a non-empty set of branch positions.
firstOf(S) == CHOOSE j \in S : \A l \in S : j <= l

\* The first loop of bestBranch: the branches of the writer's type (and, when
\* named, of the writer's name).
exactBranches(writer, reader) ==
  {j \in 1..Len(reader.leaves) :
     /\ reader.leaves[j].type = writer.type
     /\ hasName(reader.leaves[j]) => reader.leaves[j].name = writer.name}

\* The second loop of bestBranch: the branches its switch over the writer's
\* type returns for.
promotableBranches(writer, reader) ==
  {j \in 1..Len(reader.leaves) :
     \/ writer.type = "int" /\ reader.leaves[j].type \in {"long", "double", "float"}
     \/ writer.type \in {"long", "float"} /\ reader.leaves[j].type = "double"}

\* A bug: the first branch of the reader is chosen, whatever the writer is.
bestBranchFirst(writer, reader) == 0

\* bestBranch: the index, from 0, of the reader branch chosen; -1 for none.
bestBranch(writer, reader) ==
  IF exactBranches(writer, reader) # {}
  THEN firstOf(exactBranches(writer, reader)) - 1
  ELSE IF promotableBranches(writer, reader) # {}
  THEN firstOf(promotableBranches(writer, reader)) - 1
  ELSE -1

\* The AVRO_UNION case of the switch over the reader's type; j is what
\* bestBranch returned.
readerUnion(writer, reader, j) ==
  IF j >= 0
  THEN <<unionAdjustSymbol(j, doGenerate2(writer, reader.leaves[j + 1])), unionSymbol>>
  ELSE <<errorSymbol>>

\* A bug: the promotions are accepted in both directions.
promotionSymbolBothWays(writerType, readerType) ==
  IF {writerType, readerType} \subseteq {"int", "long", "float", "double"}
  THEN <<resolveSymbol(KindOfType(writerType), KindOfType(readerType))>>
  ELSE <<errorSymbol>>

\* The other cases of the switch over the reader's type, for a writer of a
\* different type: a Resolve symbol for a promotion, the error symbol if not.
promotionSymbol(writerType, readerType) ==
  CASE readerType = "long" /\ writerType = "int" ->
         <<resolveSymbol("Int", "Long")>>
    [] readerType = "float" /\ writerType \in {"int", "long"} ->
         <<resolveSymbol(KindOfType(writerType), "Float")>>
    [] readerType = "double" /\ writerType \in {"int", "long", "float"} ->
         <<resolveSymbol(KindOfType(writerType), "Double")>>
    [] OTHER -> <<errorSymbol>>

doGenerate2(writer, reader) ==
  IF writer.type = reader.type
  THEN CASE isPrimitive(writer.type) -> <<Sym(KindOfType(writer.type))>>
         [] writer.type = "record" ->
              IF writer.name = reader.name THEN resolveRecords(writer, reader)
              ELSE <<errorSymbol>>
         [] writer.type = "array" ->
              resolveArray(doGenerate2(writer.leaves[1], reader.leaves[1]),
                           getWriterProduction(writer.leaves[1]))
         [] writer.type = "union" -> resolveUnion(writer, reader)
  ELSE IF writer.type = "union" THEN resolveUnion(writer, reader)
  ELSE IF reader.type = "union"
  THEN readerUnion(writer, reader, bestBranch(writer, reader))
  ELSE promotionSymbol(writer.type, reader.type)

\* ResolvingGrammarGenerator::generate
ResolvingGrammarGenerator_generate(writer, reader) ==
  rootSymbol(doGenerate2(writer, reader), doGenerate(writer))

(***************************************************************************)
(* The conversions of the promoting reads.  A float or a double is held as *)
(* its IEEE-754 bytes; the integers of the model are small, so that each   *)
(* conversion is exact.                                                    *)
(***************************************************************************)
RECURSIVE log2floor(_)
log2floor(n) == IF n < 2 THEN 0 ELSE 1 + log2floor(n \div 2)

RECURSIVE pow2(_)
pow2(e) == IF e = 0 THEN 1 ELSE 2 * pow2(e - 1)

abs(n) == IF n < 0 THEN -n ELSE n

signBit(n) == IF n < 0 THEN 128 ELSE 0

\* The float with biased exponent E and 23-bit fraction frac.
floatBytes(sign, E, frac) ==
  <<sign + (E \div 2), (E % 2) * 128 + (frac \div 65536), (frac \div 256) % 256,
    frac % 256>>

\* The double with biased exponent E whose fraction starts with the 23 bits
\* frac and goes on with zeros.
doubleBytes(sign, E, frac) ==
  <<sign + (E \div 16), (E % 16) * 16 + (frac \div 524288), (frac \div 2048) % 256,
    (frac \div 8) % 256, (frac % 8) * 32, 0, 0, 0>>

\* (float) n and (double) n, for |n| < 2^24
intToFloat(n) ==
  IF n = 0 THEN <<0, 0, 0, 0>>
  ELSE floatBytes(signBit(n), log2floor(abs(n)) + 127,
                  (abs(n) - pow2(log2floor(abs(n)))) * pow2(23 - log2floor(abs(n))))

intToDouble(n) ==
  IF n = 0 THEN <<0, 0, 0, 0, 0, 0, 0, 0>>
  ELSE doubleBytes(signBit(n), log2floor(abs(n)) + 1023,
                   (abs(n) - pow2(log2floor(abs(n)))) * pow2(23 - log2floor(abs(n))))

\* The biased exponent and the fraction of a float.
floatExponent(f) == (f[1] % 128) * 2 + (f[2] \div 128)

floatFraction(f) == (f[2] % 128) * 65536 + f[3] * 256 + f[4]

\* (double) f, for f zero, normal, infinite or NaN
floatToDouble(f) ==
  doubleBytes((f[1] \div 128) * 128,
              IF floatExponent(f) = 0 THEN 0
              ELSE IF floatExponent(f) = 255 THEN 2047
              ELSE floatExponent(f) + 896,
              floatFraction(f))

\* The value of kind from, as the kind to that the reader asked for.
promote(from, to, v) ==
  IF from = to THEN v
  ELSE IF to = "Float" THEN intToFloat(v)
  ELSE IF to = "Double" THEN (IF from = "Float" THEN floatToDouble(v) ELSE intToDouble(v))
  ELSE v

(***************************************************************************)
(* ResolvingDecoder over a binary decoder.                                 *)
(***************************************************************************)
\* A bug: the base operation is the reader's, whatever the writer wrote.
baseKindOfReader(k, ret) == k

\* The base operation a leaf operation calls, given the kind advance returned.
baseKind(k, ret) ==
  IF k = "Long" /\ ret = "Int" THEN "Int"
  ELSE IF k = "Float" /\ ret \in {"Int", "Long"} THEN ret
  ELSE IF k = "Double" /\ ret \in {"Int", "Long", "Float"} THEN ret
  ELSE k

\* The decoder after a read of kind from whose value is returned as kind k.
promoted(b, from, k) == IF b.err # "" THEN b ELSE [b EXCEPT !.val = promote(from, k, @)]

\* The decoder in use reads what the writer wrote, unless the parser has failed.
resolvedRead(a, k) ==
  IF a.err # "" THEN a ELSE promoted(baseRead(a, baseKind(k, a.ret)), baseKind(k, a.ret), k)

\* decodeNull, decodeBool, decodeInt, decodeLong, decodeFloat, decodeDouble,
\* decodeString, decodeBytes
ResolvingDecoder_decode(d, k) == resolvedRead(advance(d, k), k)

ResolvingDecoder_fieldOrder(d) == sizeList(advance(d, "Record"))

ResolvingDecoder_arrayStart(d) == afterItemCount(baseItemCount(advance(d, "ArrayStart")))

ResolvingDecoder_arrayNext(d) == afterItemCount(baseItemCount(processImplicitActions(d)))

\* The reader's branch is the one the UnionAdjust symbol carries; nothing is
\* read from the base.
ResolvingDecoder_decodeUnionIndex(d) == unionAdjust(advance(d, "Union"))

\* resolvingDecoder(writer, reader, base) followed by init(is)
ResolvingDecoder(writer, reader, is) ==
  [stack |-> <<ResolvingGrammarGenerator_generate(writer, reader)>>,
   handler |-> "resolving", base_ |-> "base", backup_ |-> "null",
   input |-> is, pos |-> 0, binData |-> <<>>, binPos |-> 0,
   err |-> "", ret |-> "", val |-> 0, order |-> <<>>]

\* A bug: reset leaves the scratch decoder in use.
ResolvingDecoderHandler_resetNothing(d) == d

\* ResolvingDecoderHandler::reset: the decoder saved at DefaultStart, if
\* any, is in use again.
ResolvingDecoderHandler_reset(d) ==
  IF d.backup_ # "null" THEN [d EXCEPT !.base_ = d.backup_, !.backup_ = "null"] ELSE d

\* Decoder::init(is) on the decoder that base_ is: the scratch decoder when
\* base_ is that.
baseInit(d, is) ==
  IF d.base_ = "bin" THEN [d EXCEPT !.binData = is, !.binPos = 0]
  ELSE [d EXCEPT !.input = is, !.pos = 0]

\* SimpleParser::reset: the stack is cut down to the Root symbol at its
\* bottom.
SimpleParser_reset(d) == [d EXCEPT !.stack = <<d.stack[1]>>]

\* ResolvingDecoderImpl::init(is).  The failure of an earlier call was an
\* exception to the client and is no state of the decoder.
ResolvingDecoder_init(d, is) ==
  [SimpleParser_reset(baseInit(ResolvingDecoderHandler_reset(d), is))
     EXCEPT !.err = "", !.ret = "", !.val = 0, !.order = <<>>]

(***************************************************************************)
(* GenericReader::read: the datum read is left in val; the value of a      *)
(* record is the sequence of its fields' values, by field index.           *)
(***************************************************************************)
isResolving(d) == d.handler = "resolving"

\* The decoder's leaf operation, by the dynamic type of the decoder.
Decoder_decode(d, k) ==
  IF isResolving(d) THEN ResolvingDecoder_decode(d, k) ELSE ValidatingDecoder_decode(d, k)

\* The order 0, 1, .. c-1 a decoder that does not resolve is read in.
declaredOrder(c) == [i \in 1..c |-> i - 1]

RECURSIVE GenericReader_read(_, _)

RECURSIVE readFields(_, _, _, _, _)

\* The field fo[i] has been read, leaving d1.
fieldRead(d1, node, fo, i, r) ==
  IF d1.err # "" THEN d1
  ELSE readFields(d1, node, fo, i + 1, [r EXCEPT ![fo[i] + 1] = d1.val])

readFields(d, node, fo, i, r) ==
  IF i > Len(node.leaves) THEN [d EXCEPT !.val = r]
  ELSE fieldRead(GenericReader_read(d, node.leaves[fo[i] + 1]), node, fo, i, r)

\* The record case, once the field order is known.
readRecord(d1, node, fo) ==
  IF d1.err # "" THEN d1
  ELSE readFields(d1, node, fo, 1, [i \in 1..Len(node.leaves) |-> 0])

readResolvedRecord(d1, node) == readRecord(d1, node, d1.order)

GenericReader_read(d, node) ==
  IF node.type = "record"
  THEN IF isResolving(d) THEN readResolvedRecord(ResolvingDecoder_fieldOrder(d), node)
       ELSE readRecord(d, node, declaredOrder(Len(node.leaves)))
  ELSE Decoder_decode(d, KindOfType(node.type))

(***************************************************************************)
(* Node::resolve.  The result is a SchemaResolution, or "NoLeaf" when the  *)
(* call has asked a node that keeps no leaves for its leaf: leafAt reads   *)
(* leafAttributes_, which is NoLeaves for a primitive and for a symbolic   *)
(* node (whose target is in actualNode_, not among the leaves).            *)
(* furtherResolution handles the readers that are symbolic or unions: in   *)
(* a union a branch that matches wins, wherever it is; failing that, the   *)
(* first branch that is not NO_MATCH.                                      *)
(***************************************************************************)
RECURSIVE Node_resolve(_, _)

\* What leafAt gives for a node that keeps no leaves.
NoLeaves == [type |-> "none"]

\* Node::leafAt(index): leafAttributes_.get(index)
leafAt(n, index) ==
  IF n.type \in {"record", "array", "union"} THEN n.leaves[index + 1] ELSE NoLeaves

\* resolve(*node), node being what leafAt has given.
resolveLeaf(writer, node) ==
  IF node.type = "none" THEN "NoLeaf" ELSE Node_resolve(writer, node)

\* The loop of furtherResolution over the reader's leaves from i on; match
\* is the result so far.
RECURSIVE unionResolution(_, _, _, _)

\* A bug: the first branch that is not NO_MATCH wins, a later MATCH or not.
unionStepFirst(writer, reader, i, match, thisMatch) ==
  IF thisMatch = "NoLeaf" THEN "NoLeaf"
  ELSE IF thisMatch # "NO_MATCH" THEN thisMatch
  ELSE unionResolution(writer, reader, i + 1, match)

\* The body of the loop, given what leaf i resolves to.
unionStep(writer, reader, i, match, thisMatch) ==
  IF thisMatch = "NoLeaf" THEN "NoLeaf"
  ELSE IF thisMatch = "MATCH" THEN "MATCH"
  ELSE unionResolution(writer, reader, i + 1,
                       IF match = "NO_MATCH" THEN thisMatch ELSE match)

unionResolution(writer, reader, i, match) ==
  IF i > Len(reader.leaves) THEN match
  ELSE unionStep(writer, reader, i, match, resolveLeaf(writer, leafAt(reader, i - 1)))

furtherResolution(writer, reader) ==
  IF reader.type = "symbolic" THEN resolveLeaf(writer, leafAt(reader, 0))
  ELSE IF reader.type = "union" THEN unionResolution(writer, reader, 1, "NO_MATCH")
  ELSE "NO_MATCH"

\* A bug: long and float are treated alike, both promotable to double only.
NodePrimitive_resolveLongAsFloat(writer, reader) ==
  IF writer.type = reader.type THEN "MATCH"
  ELSE IF writer.type = "int" /\ reader.type = "long" THEN "PROMOTABLE_TO_LONG"
  ELSE IF writer.type = "int" /\ reader.type = "float" THEN "PROMOTABLE_TO_FLOAT"
  ELSE IF writer.type \in {"int", "long", "float"} /\ reader.type = "double"
  THEN "PROMOTABLE_TO_DOUBLE"
  ELSE "NO_MATCH"

NodePrimitive_resolve(writer, reader) ==
  IF writer.type = reader.type THEN "MATCH"
  ELSE IF writer.type = "int" /\ reader.type = "long" THEN "PROMOTABLE_TO_LONG"
  ELSE IF writer.type \in {"int", "long"} /\ reader.type = "float" THEN "PROMOTABLE_TO_FLOAT"
  ELSE IF writer.type \in {"int", "long", "float"} /\ reader.type = "double"
  THEN "PROMOTABLE_TO_DOUBLE"
  ELSE furtherResolution(writer, reader)

NodeRecord_resolve(writer, reader) ==
  IF reader.type = "record" /\ writer.name = reader.name THEN "MATCH"
  ELSE furtherResolution(writer, reader)

NodeArray_resolve(writer, reader) ==
  IF reader.type = "array" THEN Node_resolve(leafAt(writer, 0), leafAt(reader, 0))
  ELSE furtherResolution(writer, reader)

\* The loop of NodeUnion::resolve over the writer's leaves from i on.
RECURSIVE writerUnionResolution(_, _, _, _)

writerUnionStep(writer, reader, i, match, thisMatch) ==
  IF thisMatch = "NoLeaf" THEN "NoLeaf"
  ELSE IF thisMatch = "MATCH" THEN "MATCH"
  ELSE writerUnionResolution(writer, reader, i + 1,
                             IF match = "NO_MATCH" THEN thisMatch ELSE match)

writerUnionResolution(writer, reader, i, match) ==
  IF i > Len(writer.leaves) THEN match
  ELSE writerUnionStep(writer, reader, i, match, Node_resolve(leafAt(writer, i - 1), reader))

NodeUnion_resolve(writer, reader) == writerUnionResolution(writer, reader, 1, "NO_MATCH")

NodeSymbolic_resolve(writer, reader) ==
  IF leafAt(writer, 0).type = "none" THEN "NoLeaf"
  ELSE Node_resolve(leafAt(writer, 0), reader)

\* writer.resolve(reader), by the dynamic type of the writer.
Node_resolve(writer, reader) ==
  CASE isPrimitive(writer.type) -> NodePrimitive_resolve(writer, reader)
    [] writer.type = "record" -> NodeRecord_resolve(writer, reader)
    [] writer.type = "array" -> NodeArray_resolve(writer, reader)
    [] writer.type = "union" -> NodeUnion_resolve(writer, reader)
    [] writer.type = "symbolic" -> NodeSymbolic_resolve(writer, reader)

(***************************************************************************)
(* The grammar generators on schemas with cycles.  A symbolic node names   *)
(* the record it refers to, which is found in the schema it belongs to.    *)
(* Productions are shared by reference: a generator g has a heap of        *)
(* productions, and a symbol that holds a production holds its position in *)
(* the heap.  A record node is identified by the schema it is in ("w" the  *)
(* writer's, "r" the reader's) and its name.  g.m2 is the map of the       *)
(* validating generator (record node to production, 0 for the null         *)
(* pointer) and g.m the map of the resolving generator (pair of record     *)
(* nodes to production); g.side is the schema that the writer argument is  *)
(* in ("r" while the production of a reader-only field is made); g.ret is  *)
(* the production the last call returned, g.depth the number of calls in   *)
(* progress, g.deepest the most there were, g.emitted the number of        *)
(* placeholders made.  A call MaxDepth deep is cut short and marks g as    *)
(* diverged.                                                               *)
(***************************************************************************)
MaxDepth == 12       \* calls of a generator in progress at one time

SymbolicNode(name) == [type |-> "symbolic", name |-> name]

\* The record nodes of a schema.
RECURSIVE recordsOf(_)
recordsOf(n) ==
  (IF n.type = "record" THEN {n} ELSE {}) \cup
  (IF n.type \in {"record", "array", "union"}
   THEN UNION {recordsOf(n.leaves[i]) : i \in 1..Len(n.leaves)} ELSE {})

\* resolveSymbol(node), for a symbolic node of the schema root.
resolveSymbolIn(root, n) == CHOOSE r \in recordsOf(root) : r.name = n.name

\* The schema that the writer argument is in.
sideRoot(g) == IF g.side = "w" THEN g.root ELSE g.readerRoot

\* The writer argument, with a symbolic node followed.
writerNode(g, n) == IF n.type = "symbolic" THEN resolveSymbolIn(sideRoot(g), n) ELSE n

\* The reader argument, with a symbolic node followed.
readerNode(g, n) == IF n.type = "symbolic" THEN resolveSymbolIn(g.readerRoot, n) ELSE n

\* The keys of the maps m2 and m.
nodeKey(g, n) == <<g.side, n.name>>

pairKey(g, writer, reader) == <<g.side, writer.name, "r", reader.name>>

placeholder(key) == [kind |-> "Placeholder", key |-> key]

\* What fixup puts for a placeholder: a reference to a production.
symbolic(p) == [kind |-> "Symbolic", prod |-> p]

EmptyMap == [k \in {} |-> 0]

Generator(writerRoot, readerRoot) ==
  [root |-> writerRoot, readerRoot |-> readerRoot, side |-> "w", heap |-> <<>>,
   m |-> EmptyMap,
   m2 |-> EmptyMap, ret |-> 0, depth |-> 0, deepest |-> 0, emitted |-> 0,
   diverged |-> FALSE, err |-> ""]

\* make_shared<Production>(prod), returned.
alloc(g, prod) == [g EXCEPT !.heap = Append(@, prod), !.ret = Len(g.heap) + 1]

\* A call begins / returns.
enter(g) ==
  [g EXCEPT !.depth = @ + 1, !.deepest = IF g.depth + 1 > @ THEN g.depth + 1 ELSE @]

leave(g) == [g EXCEPT !.depth = @ - 1]

\* A call that is not carried out.
cut(g) == alloc([g EXCEPT !.diverged = TRUE], <<>>)

mapErase(f, k) == [x \in DOMAIN f \ {k} |-> f[x]]

mapPut(f, k, v) == [x \in DOMAIN f \cup {k} |-> IF x = k THEN v ELSE f[x]]

RECURSIVE doGenerate_m(_, _)

\* The record case: the loop over the leaves, then reverse and m[n] = result.
RECURSIVE recordLeaves(_, _, _, _)

\* The production of leaf i was returned in g1: it is copied in reverse.
recordLeaf(g1, n, i, result) ==
  recordLeaves(g1, n, i + 1, result \o Reverse(g1.heap[g1.ret]))

\* m[n] = result; return result
recordDone(g1, n) == [g1 EXCEPT !.m2 = mapPut(@, nodeKey(g1, n), g1.ret)]

recordLeaves(g, n, i, result) ==
  IF i > Len(n.leaves) THEN recordDone(alloc(g, Reverse(result)), n)
  ELSE recordLeaf(doGenerate_m(g, n.leaves[i]), n, i, result)

\* The array case, once the production of the items was returned in g1.
arrayOf(g1) ==
  alloc(g1, <<Sym("ArrayEnd"), repeater(g1.ret, g1.ret, TRUE), Sym("ArrayStart")>>)

\* The union case: the loop over the branches; vv holds their productions.
RECURSIVE unionLeaves(_, _, _, _)

unionLeaf(g1, n, i, vv) == unionLeaves(g1, n, i + 1, Append(vv, g1.ret))

unionLeaves(g, n, i, vv) ==
  IF i > Len(n.leaves) THEN alloc(g, <<alternative(vv), unionSymbol>>)
  ELSE unionLeaf(doGenerate_m(g, n.leaves[i]), n, i, vv)

\* A bug: the record a symbolic node refers to is generated in its place.
symbolicCaseRecursing(g, n) == doGenerate_m(g, writerNode(g, n))

\* The symbolic case: the production cached for the record referred to, or a
\* placeholder for it.
symbolicCase(g, n) ==
  IF nodeKey(g, n) \in DOMAIN g.m2 /\ g.m2[nodeKey(g, n)] # 0
  THEN [g EXCEPT !.ret = g.m2[nodeKey(g, n)]]
  ELSE alloc([g EXCEPT !.m2 = mapPut(@, nodeKey(g, n), 0), !.emitted = @ + 1],
             <<placeholder(nodeKey(g, n))>>)

\* The switch over the node's type.
doGenerateCase(g, n) ==
  CASE isPrimitive(n.type) -> alloc(g, <<Sym(KindOfType(n.type))>>)
    [] n.type = "record" ->
         recordLeaves([g EXCEPT !.m2 = mapErase(@, nodeKey(g, n))], n, 1, <<>>)
    [] n.type = "array" -> arrayOf(doGenerate_m(g, n.leaves[1]))
    [] n.type = "union" -> unionLeaves(g, n, 1, <<>>)
    [] n.type = "symbolic" -> symbolicCase(g, n)

\* ValidatingGrammarGenerator::doGenerate(n, m)
doGenerate_m(g, n) ==
  IF g.depth >= MaxDepth THEN cut(g) ELSE leave(doGenerateCase(enter(g), n))

\* The productions that the symbols of a production hold.
heldBy(prod) ==
  UNION {CASE prod[i].kind \in {"Indirect", "UnionAdjust"} -> {prod[i].prod}
           [] prod[i].kind = "Repeater" -> {prod[i].prod, prod[i].skipProd}
           [] prod[i].kind = "Alternative" -> Range(prod[i].branches)
           [] OTHER -> {} : i \in 1..Len(prod)}

\* A placeholder whose key has a production in the map mm is replaced by a
\* reference to that production.
patched(prod, mm) ==
  [i \in 1..Len(prod) |->
     IF prod[i].kind = "Placeholder" /\ prod[i].key \in DOMAIN mm /\ mm[prod[i].key] # 0
     THEN symbolic(mm[prod[i].key]) ELSE prod[i]]

\* The traversal of fixup: todo are the productions still to visit, seen the
\* ones visited.
RECURSIVE fixupFrom(_, _, _, _)
fixupFrom(heap, mm, todo, seen) ==
  IF todo = {} THEN heap
  ELSE LET p == CHOOSE x \in todo : TRUE
       IN fixupFrom([heap EXCEPT ![p] = patched(@, mm)], mm,
                    (todo \cup heldBy(heap[p])) \ (seen \cup {p}), seen \cup {p})

\* A bug: fixup leaves the placeholders where they are.
fixupNothing(g, p, mm) == g

\* fixup(p, m): the placeholders of p, and of the productions that its
\* symbols hold, are replaced in place.
fixup(g, p, mm) == [g EXCEPT !.heap = fixupFrom(g.heap, mm, {p}, {})]

\* After doGenerate has returned in g1.
fixedUp(g1) == fixup(g1, g1.ret, g1.m2)

\* ValidatingGrammarGenerator::generate(n)
ValidatingGrammarGenerator_generate(n) == fixedUp(doGenerate_m(Generator(n, n), n))

RECURSIVE doGenerate2_m(_, _, _)

\* getWriterProduction(n, m2)
getWriterProduction_m(g, n) ==
  IF writerNode(g, n).type = "record" /\ nodeKey(g, writerNode(g, n)) \in DOMAIN g.m2
  THEN [g EXCEPT !.ret = g.m2[nodeKey(g, writerNode(g, n))]]
  ELSE fixedUp(doGenerate_m(g, writerNode(g, n)))

\* A null production pointer is dereferenced.
nullProduction(g) == alloc([g EXCEPT !.err = "NullProduction"], <<>>)

\* What resolveRecords pushes for a writer field that no reader field
\* matches; its production was returned in g1.
skipped(g1) ==
  <<skipStart>> \o (IF Len(g1.heap[g1.ret]) = 1 THEN <<g1.heap[g1.ret][1]>>
                    ELSE <<indirect(g1.ret)>>)

\* The loop over the writer's fields; st holds result, the pending reader
\* fields rf, fieldOrder, and the generator g.
RECURSIVE writerFields(_, _, _, _)

\* Writer field i was resolved against reader field st.rf[j], in g1.
matchedField(g1, writer, reader, i, st, j) ==
  writerFields(writer, reader, i + 1,
    [result |-> st.result \o Reverse(g1.heap[g1.ret]),
     fieldOrder |-> Append(st.fieldOrder, st.rf[j][2]),
     rf |-> erase(st.rf, j), g |-> g1])

\* Writer field i has no reader field; its production was returned in g1.
unmatchedField(g1, writer, reader, i, st) ==
  writerFields(writer, reader, i + 1,
    [st EXCEPT !.result = @ \o skipped(g1), !.g = g1])

writerField(writer, reader, i, st, j) ==
  IF j # 0
  THEN matchedField(doGenerate2_m(st.g, writer.leaves[i], reader.leaves[st.rf[j][2] + 1]),
                    writer, reader, i, st, j)
  ELSE unmatchedField(getWriterProduction_m(st.g, writer.leaves[i]), writer, reader, i, st)

writerFields(writer, reader, i, st) ==
  IF i > Len(writer.names) THEN st
  ELSE writerField(writer, reader, i, st, findField(st.rf, writer.names[i]))

\* The loop over the reader fields left in rf.
RECURSIVE readerFields(_, _, _)

\* The production p of reader field st.rf[i] is in g1: it is copied between
\* DefaultStart and DefaultEnd.
defaultedField(g1, reader, i, st) ==
  readerFields(reader, i + 1,
    [st EXCEPT
       !.fieldOrder = Append(@, st.rf[i][2]),
       !.result = @ \o <<defaultStartAction(
                            getAvroBinary(reader.defaultValues[st.rf[i][2] + 1]))>>
                    \o Reverse(g1.heap[g1.ret]) \o <<defaultEndAction>>,
       !.g = g1])

\* doGenerate2(s, s, m, m2) returned in g1: both its arguments were in the
\* reader's schema.
asReaderOnly(g1, g) == [g1 EXCEPT !.side = g.side]

\* p: the production cached for (s, s), or the one doGenerate2(s, s) makes.
defaultProduction(g, s) ==
  IF s.type = "record" /\ <<"r", s.name, "r", s.name>> \in DOMAIN g.m
  THEN (IF g.m[<<"r", s.name, "r", s.name>>] = 0 THEN nullProduction(g)
        ELSE [g EXCEPT !.ret = g.m[<<"r", s.name, "r", s.name>>]])
  ELSE asReaderOnly(doGenerate2_m([g EXCEPT !.side = "r"], s, s), g)

readerFields(reader, i, st) ==
  IF i > Len(st.rf) THEN st
  ELSE defaultedField(
         defaultProduction(st.g, readerNode(st.g, reader.leaves[st.rf[i][2] + 1])),
         reader, i, st)

\* The end of resolveRecords: the result is a new production.
recordsResolved(st) == alloc(st.g, finishRecord(st))

\* resolveRecords(writer, reader, m, m2)
resolveRecords_m(g, writer, reader) ==
  recordsResolved(
    readerFields(reader, 1,
      writerFields(writer, reader, 1,
        [result |-> <<>>, rf |-> fields(reader), fieldOrder |-> <<>>, g |-> g])))

\* resolveUnion: the loop over the writer's branches; v holds their
\* productions.
RECURSIVE writerBranches(_, _, _, _, _)

writerBranch(g1, writer, reader, i, v) ==
  writerBranches(g1, writer, reader, i + 1, Append(v, g1.ret))

writerBranches(g, writer, reader, i, v) ==
  IF i > Len(writer.leaves) THEN alloc(g, <<alternative(v), writerUnionAction>>)
  ELSE writerBranch(doGenerate2_m(g, writer.leaves[i], reader), writer, reader, i, v)

resolveUnion_m(g, writer, reader) == writerBranches(g, writer, reader, 1, <<>>)

\* m[key] = result; return result
pairDone(g1, key) == [g1 EXCEPT !.m = mapPut(@, key, g1.ret)]

\* The record case of doGenerate2, for records of one name.
recordPair(g, writer, reader, key) ==
  IF key \in DOMAIN g.m
  THEN (IF g.m[key] # 0 THEN [g EXCEPT !.ret = g.m[key]]
        ELSE alloc([g EXCEPT !.emitted = @ + 1], <<placeholder(key)>>))
  ELSE pairDone(resolveRecords_m([g EXCEPT !.m = mapPut(@, key, 0)], writer, reader), key)

\* The array case of doGenerate2: p was returned in g1, p2 in g2.
arrayResolved(g2, p) ==
  alloc(g2, <<Sym("ArrayEnd"), repeater(g2.ret, p, TRUE), Sym("ArrayStart")>>)

arrayItems(g1, writer, reader) ==
  arrayResolved(doGenerate2_m(g1, writer.leaves[1], reader.leaves[1]), g1.ret)

\* The reader with the symbolic nodes among its branches followed, as the
\* first loop of bestBranch sees it.
followedLeaves(g, reader) ==
  [reader EXCEPT !.leaves = [i \in 1..Len(reader.leaves) |-> readerNode(g, reader.leaves[i])]]

\* The union case of the switch over the reader's type: the writer was
\* resolved against branch j in g1.
adjusted(g1, j) == alloc(g1, <<unionAdjustSymbol(j, g1.ret), unionSymbol>>)

readerUnion_m(g, writer, reader, j) ==
  IF j >= 0 THEN adjusted(doGenerate2_m(g, writer, reader.leaves[j + 1]), j)
  ELSE alloc(g, <<errorSymbol>>)

\* The body of doGenerate2; writer and reader are not symbolic.
doGenerate2Case(g, writer, reader) ==
  IF writer.type = reader.type
  THEN CASE isPrimitive(writer.type) -> alloc(g, <<Sym(KindOfType(writer.type))>>)
         [] writer.type = "record" ->
              IF writer.name = reader.name
              THEN recordPair(g, writer, reader, pairKey(g, writer, reader))
              ELSE alloc(g, <<errorSymbol>>)
         [] writer.type = "array" ->
              arrayItems(getWriterProduction_m(g, writer.leaves[1]), writer, reader)
         [] writer.type = "union" -> resolveUnion_m(g, writer, reader)
  ELSE IF writer.type = "union" THEN resolveUnion_m(g, writer, reader)
  ELSE IF reader.type = "union"
  THEN readerUnion_m(g, writer, reader, bestBranch(writer, followedLeaves(g, reader)))
  ELSE alloc(g, promotionSymbol(writer.type, reader.type))

\* ResolvingGrammarGenerator::doGenerate2(w, r, m, m2)
doGenerate2_m(g, w, r) ==
  IF g.depth >= MaxDepth THEN cut(g)
  ELSE leave(doGenerate2Case(enter(g), writerNode(g, w), readerNode(g, r)))

\* The grammar generate returns: the generator with the main and the backup
\* production of the root symbol.
rooted(g3, backup) ==
  [heap |-> g3.heap, main |-> g3.ret, backup |-> backup, m |-> g3.m, m2 |-> g3.m2,
   deepest |-> g3.deepest, emitted |-> g3.emitted, diverged |-> g3.diverged,
   err |-> g3.err]

\* fixup(main, m), main having been returned in g2
mainFixedUp(g2, backup) == rooted(fixup(g2, g2.ret, g2.m), backup)

\* main = doGenerate2(rw, rr, m, m2), the backup having been returned in g1
withBackup(g1) == mainFixedUp(doGenerate2_m(g1, g1.root, g1.readerRoot), g1.ret)

\* ResolvingGrammarGenerator::generate(writer, reader)
ResolvingGrammarGenerator_generate_m(writer, reader) ==
  withBackup(fixedUp(doGenerate_m(Generator(writer, reader), writer)))

\* ValidatingGrammarGenerator::generate(schema): the grammar of the root
\* symbol.
ValidatingGrammarGenerator_rooted(n) == rooted(ValidatingGrammarGenerator_generate(n), 0)

(***************************************************************************)
(* JsonDecoder.  Its input is the sequence of tokens that the JSON parser  *)
(* finds in the text; a number written as a float comes back as the double *)
(* of the same value.  The value of an integer token is an int64_t, held   *)
(* as hi * 2^16 + lo with lo in 0 .. 2^16 - 1.                             *)
(***************************************************************************)
Int64(hi, lo) == [hi |-> hi, lo |-> lo]

\* The int64_t of a number that an int32_t holds.
widened(n) == Int64(n \div 65536, n % 65536)

\* static_cast<int32_t>(w)
narrowed(w) == (((w.hi + 32768) % 65536) - 32768) * 65536 + w.lo

lessThan(a, b) == a.hi < b.hi \/ (a.hi = b.hi /\ a.lo < b.lo)

INT32_MIN == Int64(-32768, 0)

INT32_MAX == Int64(32767, 65535)

\* The biased exponent of a double and the first 23 bits of its fraction.
doubleExponent(d) == (d[1] % 128) * 16 + (d[2] \div 16)

doubleFraction(d) == (d[2] % 16) * 524288 + d[3] * 2048 + d[4] * 8 + (d[5] \div 32)

\* static_cast<float>(d), for d infinite, NaN, a value that a float holds
\* exactly, or too small for a float
doubleToFloat(d) ==
  IF doubleExponent(d) = 2047
  THEN floatBytes((d[1] \div 128) * 128, 255,
                  IF d \in {<<127, 240, 0, 0, 0, 0, 0, 0>>, <<255, 240, 0, 0, 0, 0, 0, 0>>}
                  THEN 0 ELSE 4194304 + (doubleFraction(d) % 4194304))
  ELSE IF doubleExponent(d) >= 1151 THEN floatBytes((d[1] \div 128) * 128, 255, 0)
  ELSE IF doubleExponent(d) <= 873 THEN floatBytes((d[1] \div 128) * 128, 0, 0)
  ELSE floatBytes((d[1] \div 128) * 128, doubleExponent(d) - 896, doubleFraction(d))

\* The tokens the JSON parser finds in what the JSON generator has written.
parsedToken(t) ==
  IF t.tok = "double" /\ Len(t.val) = 4 THEN Tok("double", floatToDouble(t.val))
  ELSE IF t.tok = "long" THEN Tok("long", widened(t.val))
  ELSE t

JsonParser_tokens(out) == [i \in 1..Len(out) |-> parsedToken(out[i])]

\* The token that a leaf of kind k is read from.
tokenOf(k) ==
  CASE k = "Null" -> "null"
    [] k = "Bool" -> "bool"
    [] k \in {"Int", "Long"} -> "long"
    [] k \in {"Float", "Double"} -> "double"
    [] k \in {"String", "Bytes"} -> "string"

\* A bug: the value is narrowed to 32 bits without a check.
inInt32RangeWrapped(b) ==
  IF b.err # "" THEN b ELSE [b EXCEPT !.val = narrowed(b.val)]

\* if (result < INT32_MIN || result > INT32_MAX) throw ...;
\* return static_cast<int32_t>(result)
inInt32Range(b) ==
  IF b.err # "" THEN b
  ELSE IF lessThan(b.val, INT32_MIN) \/ lessThan(INT32_MAX, b.val) THEN fail(b, "RangeError")
  ELSE [b EXCEPT !.val = narrowed(b.val)]

\* static_cast<float>(result)
asFloat(b) == IF b.err # "" THEN b ELSE [b EXCEPT !.val = doubleToFloat(b.val)]

\* decodeNull .. decodeBytes: the value returned is left in val.
JsonDecoder_decode(d, k) ==
  CASE k = "Int" -> inInt32Range(expectToken(advance(d, k), tokenOf(k)))
    [] k = "Float" -> asFloat(expectToken(advance(d, k), tokenOf(k)))
    [] OTHER -> expectToken(advance(d, k), tokenOf(k))

\* JsonDecoder constructor followed by init(is)
JsonDecoder(s, is) ==
  [NoDecoder EXCEPT !.stack = <<rootSymbol(JsonGrammarGenerator_doGenerate(s), <<>>)>>,
                    !.handler = "jsonDecoder", !.input = is]

(***************************************************************************)
(* The values a client passes to the leaf operations.                      *)
(***************************************************************************)
Values(k) ==
  CASE k = "Null" -> {0}
    [] k = "Bool" -> {TRUE, FALSE}
    [] k = "Int" -> {-1, 64}
    [] k = "Long" -> {3, -65}
    [] k = "Float" -> {<<63, 128, 0, 0>>, <<192, 64, 0, 1>>}
    [] k = "Double" -> {<<63, 240, 0, 0, 0, 0, 0, 0>>, <<128, 0, 0, 0, 0, 0, 1, 2>>}
    [] k = "String" -> {<<>>, <<120, 121>>}
    [] k = "Bytes" -> {<<0>>, <<255, 128>>}

ItemCounts == {0, 1, 2}

(***************************************************************************)
(* The schemas of the validating codec's runs.                             *)
(***************************************************************************)
NoDefaults(n) == [i \in 1..n |-> NullDatum]

RecIS == RecordNode("r", <<Prim("int"), Prim("string")>>, <<"f1", "f2">>, NoDefaults(2))

RecLBI ==
  RecordNode("r", <<Prim("long"), Prim("boolean"), Prim("int")>>,
             <<"a", "b", "c">>, NoDefaults(3))

RecInner == RecordNode("inner", <<Prim("double"), Prim("null")>>, <<"x", "y">>, NoDefaults(2))

RecEmpty == RecordNode("e", <<>>, <<>>, <<>>)

RecOuter ==
  RecordNode("outer", <<RecInner, RecEmpty, Prim("float")>>, <<"g1", "g2", "g3">>,
             NoDefaults(3))

RecArr ==
  RecordNode("ra", <<ArrayNode(Prim("long")), Prim("bytes")>>, <<"items", "tag">>,
             NoDefaults(2))

ValidatingSchemas ==
  {Prim(t) : t \in PrimitiveTypes} \cup
  {RecIS, RecLBI, RecOuter, ArrayNode(Prim("int")), RecArr}

\* The schemas the JSON encoder is run on.
JsonSchemas == {Prim("long"), Prim("double"), RecIS, RecOuter}

(***************************************************************************)
(* State.                                                                  *)
(*   schema   the (writer) schema of the run                               *)
(*   reader   the reader schema of a resolving run                         *)
(*   enc      the encoder object                                           *)
(*   dec      the decoder object                                           *)
(*   phase    "enc": the client is writing; "dec": the client is reading   *)
(*   encLog   the calls the encoder accepted, with their arguments         *)
(*   decLog   the calls the decoder accepted, with the values returned     *)
(*   lastOp   the operation the client called last, and on which side      *)
(***************************************************************************)
VARIABLES schema, reader, enc, dec, phase, encLog, decLog, lastOp

vars == <<schema, reader, enc, dec, phase, encLog, decLog, lastOp>>

Op(side, name, k) == [side |-> side, name |-> name, kind |-> k]

NoOp == Op("none", "none", "none")

Init ==
  /\ schema \in ValidatingSchemas
  /\ reader = schema
  /\ enc \in {ValidatingEncoder(schema)} \cup
             (IF schema \in JsonSchemas THEN {JsonEncoder(schema)} ELSE {})
  /\ dec = NoDecoder
  /\ phase = "enc"
  /\ encLog = <<>>
  /\ decLog = <<>>
  /\ lastOp = NoOp

EncReady ==
  phase = "enc" /\ enc.handler = "dummy" /\ enc.err = "" /\ Len(encLog) < MaxCalls

JsonReady ==
  phase = "enc" /\ enc.handler = "json" /\ enc.err = "" /\ Len(encLog) < MaxCalls

Call(k, v) == [kind |-> k, val |-> v]

\* The log after a call that left the object in state c.
Logged(log, c, k, v) == IF c.err = "" THEN Append(log, Call(k, v)) ELSE log

\* The leaf calls of a log.
Leaves(log) == SelectSeq(log, LAMBDA x : x.kind \in LeafKinds)

\* The client calls the leaf operation of kind k with value v on the encoder.
EncodeLeaf(k, v) ==
  /\ EncReady
  /\ enc' = ValidatingEncoder_encode(enc, k, v)
  /\ encLog' = Logged(encLog, enc', k, v)
  /\ lastOp' = Op("enc", "encode", k)
  /\ UNCHANGED <<schema, reader, dec, phase, decLog>>

EncodeNull == \E v \in Values("Null") : EncodeLeaf("Null", v)

EncodeBool == \E v \in Values("Bool") : EncodeLeaf("Bool", v)

EncodeInt == \E v \in Values("Int") : EncodeLeaf("Int", v)

EncodeLong == \E v \in Values("Long") : EncodeLeaf("Long", v)

EncodeFloat == \E v \in Values("Float") : EncodeLeaf("Float", v)

EncodeDouble == \E v \in Values("Double") : EncodeLeaf("Double", v)

EncodeString == \E v \in Values("String") : EncodeLeaf("String", v)

EncodeBytes == \E v \in Values("Bytes") : EncodeLeaf("Bytes", v)

\* An encoder operation that is not a leaf.
EncStructural(name, e, n) ==
  /\ EncReady
  /\ enc' = e
  /\ encLog' = Logged(encLog, enc', name, n)
  /\ lastOp' = Op("enc", name, "none")
  /\ UNCHANGED <<schema, reader, dec, phase, decLog>>

EncArrayStart == EncStructural("arrayStart", ValidatingEncoder_arrayStart(enc), 0)

EncArrayEnd == EncStructural("arrayEnd", ValidatingEncoder_arrayEnd(enc), 0)

EncSetItemCount ==
  \E n \in ItemCounts : EncStructural("setItemCount", ValidatingEncoder_setItemCount(enc, n), n)

EncStartItem == EncStructural("startItem", ValidatingEncoder_startItem(enc), 0)

\* The client flushes the encoder and opens a validating decoder for the same
\* schema over the bytes written.
Flush ==
  /\ phase = "enc"
  /\ enc.handler = "dummy"
  /\ enc.err = ""
  /\ phase' = "dec"
  /\ dec' = ValidatingDecoder(schema, enc.out)
  /\ lastOp' = Op("enc", "flush", "none")
  /\ UNCHANGED <<schema, reader, enc, encLog, decLog>>

\* An operation of the JSON encoder.
JsonOp(name, k, e, v) ==
  /\ JsonReady
  /\ enc' = e
  /\ encLog' = Logged(encLog, enc', IF k = "none" THEN name ELSE k, v)
  /\ lastOp' = Op("json", name, k)
  /\ UNCHANGED <<schema, reader, dec, phase, decLog>>

JsonEncode ==
  \E k \in LeafKinds : \E v \in Values(k) :
    JsonOp("encode", k, JsonEncoder_encode(enc, k, v), v)

JsonSetItemCount ==
  \E n \in ItemCounts : JsonOp("setItemCount", "none", JsonEncoder_setItemCount(enc, n), n)

JsonStartItem == JsonOp("startItem", "none", JsonEncoder_startItem(enc), 0)

JsonFlush ==
  /\ phase = "enc"
  /\ enc.handler = "json"
  /\ enc.err = ""
  /\ enc' = JsonEncoder_flush(enc)
  /\ phase' = "done"
  /\ lastOp' = Op("json", "flush", "none")
  /\ UNCHANGED <<schema, reader, dec, encLog, decLog>>

DecReady == phase = "dec" /\ dec.err = "" /\ Len(decLog) < MaxCalls

\* The client calls the leaf operation of kind k on the decoder.
DecodeLeaf(k) ==
  /\ DecReady
  /\ dec' = ValidatingDecoder_decode(dec, k)
  /\ decLog' = Logged(decLog, dec', k, dec'.val)
  /\ lastOp' = Op("dec", "decode", k)
  /\ UNCHANGED <<schema, reader, enc, phase, encLog>>

DecodeNull == DecodeLeaf("Null")

DecodeBool == DecodeLeaf("Bool")

DecodeInt == DecodeLeaf("Int")

DecodeLong == DecodeLeaf("Long")

DecodeFloat == DecodeLeaf("Float")

DecodeDouble == DecodeLeaf("Double")

DecodeString == DecodeLeaf("String")

DecodeBytes == DecodeLeaf("Bytes")

DecStructural(name, d) ==
  /\ DecReady
  /\ dec' = d
  /\ decLog' = Logged(decLog, dec', name, dec'.val)
  /\ lastOp' = Op("dec", name, "none")
  /\ UNCHANGED <<schema, reader, enc, phase, encLog>>

DecArrayStart == DecStructural("arrayStart", ValidatingDecoder_arrayStart(dec))

DecArrayNext == DecStructural("arrayNext", ValidatingDecoder_arrayNext(dec))

Next ==
  \/ EncodeNull \/ EncodeBool \/ EncodeInt \/ EncodeLong
  \/ EncodeFloat \/ EncodeDouble \/ EncodeString \/ EncodeBytes
  \/ EncArrayStart \/ EncArrayEnd \/ EncSetItemCount \/ EncStartItem
  \/ Flush
  \/ JsonEncode \/ JsonSetItemCount \/ JsonStartItem \/ JsonFlush
  \/ DecodeNull \/ DecodeBool \/ DecodeInt \/ DecodeLong
  \/ DecodeFloat \/ DecodeDouble \/ DecodeString \/ DecodeBytes
  \/ DecArrayStart \/ DecArrayNext

Spec == Init /\ [][Next]_vars

(***************************************************************************)
(* The terminal a grammar expects next: the terminal that is on top of the *)
(* stack once the root or a repeater with items left has been expanded     *)
(* ("none": no terminal can be accepted).                                  *)
(***************************************************************************)
expectedTerminal(c) ==
  LET s == Top(c.stack)
  IN IF isTerminal(s.kind) THEN s.kind
     ELSE IF s.kind = "Root" /\ Len(s.main) > 0 THEN Top(s.main).kind
     ELSE IF s.kind = "Repeater" /\ s.count > 0 /\ Len(s.prod) > 0 THEN Top(s.prod).kind
     ELSE "none"

(***************************************************************************)
(* C1.  Round trip: the leaf values the validating decoder returns are the *)
(* leaf values the validating encoder was given, call for call; and a leaf *)
(* read that follows the writer's sequence of calls (the grammar expects   *)
(* the kind of the next leaf written) succeeds and returns that leaf's     *)
(* value.                                                                  *)
(***************************************************************************)
RoundTrip ==
  [][/\ \A i \in 1..Len(Leaves(decLog')) :
          i <= Len(Leaves(encLog')) => Leaves(decLog')[i] = Leaves(encLog')[i]
     /\ \A k \in LeafKinds :
          (/\ lastOp' = Op("dec", "decode", k)
           /\ expectedTerminal(dec) = k
           /\ Len(Leaves(decLog)) < Len(Leaves(encLog))
           /\ Leaves(encLog)[Len(Leaves(decLog)) + 1].kind = k)
            => (/\ dec'.err = ""
                /\ dec'.val = Leaves(encLog)[Len(Leaves(decLog)) + 1].val)
    ]_vars

\* A whole datum of three or more leaves has been written and read back.
RoundTripWitness ==
  /\ phase = "dec" /\ dec.err = ""
  /\ Len(Leaves(encLog)) >= 3 /\ Leaves(decLog) = Leaves(encLog)
  /\ Len(dec.stack) = 1 /\ dec.pos = Len(dec.input)

(***************************************************************************)
(* C2.  Grammar strictness: a leaf encode or decode call of a kind other   *)
(* than the terminal the grammar expects next fails with GrammarViolation, *)
(* and the base codec's leaf operation is not performed (no byte is        *)
(* written, the read cursor does not move, no value is surfaced).          *)
(***************************************************************************)
GrammarStrictness ==
  [][\A k \in LeafKinds :
       /\ (lastOp' = Op("enc", "encode", k) /\ expectedTerminal(enc) # k)
            => (enc'.err = "GrammarViolation" /\ enc'.out = enc.out /\ encLog' = encLog)
       /\ (lastOp' = Op("dec", "decode", k) /\ expectedTerminal(dec) # k)
            => (dec'.err = "GrammarViolation" /\ dec'.pos = dec.pos /\ decLog' = decLog)
    ]_vars

\* encodeLong was called where the grammar expects String, after one field
\* had been written.
GrammarStrictnessWitness ==
  /\ schema = RecIS
  /\ lastOp = Op("enc", "encode", "Long")
  /\ enc.err = "GrammarViolation"
  /\ Len(encLog) = 1 /\ Len(enc.out) > 0
  /\ Top(enc.stack).kind = "String"

(***************************************************************************)
(* C3.  startItem fails when the top of the parsing stack is not a         *)
(* Repeater, in the validating encoder and (once the implicit actions on   *)
(* top have been performed) in the JSON encoder.                           *)
(***************************************************************************)
StartItemNeedsRepeater ==
  [][/\ (lastOp' = Op("enc", "startItem", "none") /\ top(enc) # "Repeater")
          => enc'.err # ""
     /\ (lastOp' = Op("json", "startItem", "none")
            /\ top(processImplicitActions(enc)) # "Repeater")
          => enc'.err # ""
    ]_vars

\* startItem has failed on a validating encoder that is inside a record.
StartItemWitness ==
  /\ lastOp = Op("enc", "startItem", "none")
  /\ enc.err # ""
  /\ Len(encLog) >= 1
  /\ top(enc) # "Repeater"

(***************************************************************************)
(* C4.  Record fields are accepted in declaration order only: on a record  *)
(* of primitive fields and records of such, the i-th leaf call an encoder  *)
(* or a decoder accepts has the kind of the i-th leaf in declaration order *)
(* (counting on into the next datum after the last field).                 *)
(***************************************************************************)
\* The kinds of the leaves of a schema of records, in declaration order.
RECURSIVE DeclaredKinds(_)
DeclaredKinds(n) ==
  IF n.type = "record"
  THEN Flatten([i \in 1..Len(n.leaves) |-> DeclaredKinds(n.leaves[i])])
  ELSE <<KindOfType(n.type)>>

RecordSchemas == {RecIS, RecLBI, RecOuter}

FieldKindAt(s, i) == DeclaredKinds(s)[((i - 1) % Len(DeclaredKinds(s))) + 1]

InDeclarationOrder(log) ==
  \A i \in 1..Len(log) : log[i].kind = FieldKindAt(schema, i)

FieldOrderEnforced ==
  schema \in RecordSchemas => (InDeclarationOrder(encLog) /\ InDeclarationOrder(decLog))

\* The field that comes last was offered first and was rejected; the three
\* fields were then read back in order.
FieldOrderWitness ==
  /\ schema = RecLBI
  /\ Len(encLog) = 3 /\ Len(decLog) = 3
  /\ dec.err = ""

(***************************************************************************)
(* The runs of the resolving decoder: a client writes datums of the writer *)
(* schema through a validating encoder, opens a resolving decoder for the  *)
(* (writer, reader) pair over the bytes written, and reads, either whole   *)
(* datums through GenericReader or leaf by leaf.                           *)
(***************************************************************************)
MaxDatums == 2       \* datums a client writes before the stream is read

\* The values of the datums written.
WriterValues(k) == IF k = "Long" THEN {3, 5, -65} ELSE Values(k)

RECURSIVE Product(_)
Product(ss) ==
  IF Len(ss) = 0 THEN {<<>>}
  ELSE {<<h>> \o t : h \in Head(ss), t \in Product(Tail(ss))}

\* The datums of a schema.
RECURSIVE Datums(_)
Datums(n) ==
  IF n.type = "record"
  THEN {Datum("record", fs) : fs \in Product([i \in 1..Len(n.leaves) |-> Datums(n.leaves[i])])}
  ELSE {Datum(n.type, v) : v \in WriterValues(KindOfType(n.type))}

\* The value of a datum: a record's is the sequence of its fields' values.
RECURSIVE datumValue(_)
datumValue(d) ==
  IF d.type = "record" THEN [i \in 1..Len(d.value) |-> datumValue(d.value[i])]
  ELSE d.value

\* Writer [a, b, c], reader [c, a].
WriterABC ==
  RecordNode("r", <<Prim("long"), Prim("string"), Prim("boolean")>>, <<"a", "b", "c">>,
             NoDefaults(3))

ReaderCA == RecordNode("r", <<Prim("boolean"), Prim("long")>>, <<"c", "a">>, NoDefaults(2))

\* Writer {re, im}, reader {re}.
WriterComplex ==
  RecordNode("complex", <<Prim("long"), Prim("long")>>, <<"re", "im">>, NoDefaults(2))

ReaderRe == RecordNode("complex", <<Prim("long")>>, <<"re">>, NoDefaults(1))

\* Writer {}, reader {f: int, default 100}.
WriterNone == RecordNode("r", <<>>, <<>>, <<>>)

ReaderF == RecordNode("r", <<Prim("int")>>, <<"f">>, <<Datum("int", 100)>>)

\* Reader {f: int} whose field has no default.
ReaderFNoDefault == RecordNode("r", <<Prim("int")>>, <<"f">>, NoDefaults(1))

\* Writer {f1: int, f2: string}, reader {f2: string, f1: long}.
ReaderSL == RecordNode("r", <<Prim("string"), Prim("long")>>, <<"f2", "f1">>, NoDefaults(2))

\* Writer {k: int}, reader {n: inner, default; k: int; s: string, default}.
WriterK == RecordNode("r", <<Prim("int")>>, <<"k">>, NoDefaults(1))

InnerDefault ==
  Datum("record", <<Datum("double", <<64, 9, 33, 251, 84, 68, 45, 24>>), NullDatum>>)

ReaderNKS ==
  RecordNode("r", <<RecInner, Prim("int"), Prim("string")>>, <<"n", "k", "s">>,
             <<InnerDefault, NullDatum, Datum("string", <<100, 102>>)>>)

\* Writer {n: inner, k: int}, reader {k: int}: a nested record is skipped.
WriterNK == RecordNode("r", <<RecInner, Prim("int")>>, <<"n", "k">>, NoDefaults(2))

\* Reader {f1: boolean, f2: string}: f1 cannot be read from the writer's int.
ReaderBS ==
  RecordNode("r", <<Prim("boolean"), Prim("string")>>, <<"f1", "f2">>, NoDefaults(2))

ResolvingPairs ==
  {<<WriterABC, ReaderCA>>, <<WriterComplex, ReaderRe>>, <<WriterNone, ReaderF>>,
   <<WriterNone, ReaderFNoDefault>>, <<RecIS, ReaderSL>>, <<WriterK, ReaderNKS>>,
   <<WriterNK, WriterK>>, <<RecIS, RecIS>>, <<RecIS, ReaderBS>>,
   <<Prim("int"), Prim("long")>>, <<Prim("int"), Prim("double")>>,
   <<Prim("float"), Prim("double")>>}

\* Streams that no encoder of the model wrote.
ForeignInputs == {<<7>>, <<200, 1, 9>>}

InitR ==
  /\ \E p \in ResolvingPairs : schema = p[1] /\ reader = p[2]
  /\ enc = ValidatingEncoder(schema)
  /\ dec = NoDecoder
  /\ phase = "enc"
  /\ encLog = <<>>
  /\ decLog = <<>>
  /\ lastOp = NoOp

\* GenericWriter(schema, enc).write(datum)
WriteDatum ==
  /\ phase = "enc"
  /\ Len(encLog) < MaxDatums
  /\ \E datum \in Datums(schema) :
       /\ enc' = GenericWriter_write(enc, datum)
       /\ encLog' = Logged(encLog, enc', "datum", datum)
  /\ lastOp' = Op("enc", "write", "none")
  /\ UNCHANGED <<schema, reader, dec, phase, decLog>>

\* The client opens a resolving decoder over the bytes written or, when the
\* writer has no fields, over any bytes.
Open ==
  /\ phase = "enc"
  /\ \E is \in {enc.out} \cup (IF schema = WriterNone THEN ForeignInputs ELSE {}) :
       dec' = ResolvingDecoder(schema, reader, is)
  /\ phase' = "dec"
  /\ lastOp' = Op("dec", "open", "none")
  /\ UNCHANGED <<schema, reader, enc, encLog, decLog>>

\* GenericReader(reader, dec).read(datum)
ReadDatum ==
  /\ DecReady
  /\ dec' = GenericReader_read(dec, reader)
  /\ decLog' = Logged(decLog, dec', "datum", dec'.val)
  /\ lastOp' = Op("dec", "read", "none")
  /\ UNCHANGED <<schema, reader, enc, phase, encLog>>

\* The client calls the leaf operation of kind k on the resolving decoder.
ResolveLeaf(k) ==
  /\ DecReady
  /\ dec' = ResolvingDecoder_decode(dec, k)
  /\ decLog' = Logged(decLog, dec', k, dec'.val)
  /\ lastOp' = Op("dec", "decode", k)
  /\ UNCHANGED <<schema, reader, enc, phase, encLog>>

ResolveNull == ResolveLeaf("Null")

ResolveBool == ResolveLeaf("Bool")

ResolveInt == ResolveLeaf("Int")

ResolveLong == ResolveLeaf("Long")

ResolveFloat == ResolveLeaf("Float")

ResolveDouble == ResolveLeaf("Double")

ResolveString == ResolveLeaf("String")

ResolveBytes == ResolveLeaf("Bytes")

\* The client calls fieldOrder().
FieldOrder ==
  /\ DecReady
  /\ dec' = ResolvingDecoder_fieldOrder(dec)
  /\ decLog' = Logged(decLog, dec', "fieldOrder", dec'.order)
  /\ lastOp' = Op("dec", "fieldOrder", "none")
  /\ UNCHANGED <<schema, reader, enc, phase, encLog>>

NextR ==
  \/ WriteDatum \/ Open \/ ReadDatum \/ FieldOrder
  \/ ResolveNull \/ ResolveBool \/ ResolveInt \/ ResolveLong
  \/ ResolveFloat \/ ResolveDouble \/ ResolveString \/ ResolveBytes

SpecR == InitR /\ [][NextR]_vars

(***************************************************************************)
(* The runs that build the grammar of a pair of records and ask for its    *)
(* field order: writer and reader each have any of the fields a, b, c, in  *)
(* any order, and every reader field has a default.                        *)
(***************************************************************************)
FieldNames == {"a", "b", "c"}

\* The sequences of distinct field names.
RECURSIVE NameSeqs(_)
NameSeqs(S) ==
  {<<>>} \cup UNION {{<<x>> \o t : t \in NameSeqs(S \ {x})} : x \in S}

LongRecord(ns) ==
  RecordNode("p", [i \in 1..Len(ns) |-> Prim("long")], ns,
             [i \in 1..Len(ns) |-> Datum("long", 3)])

InitG ==
  /\ \E ws \in NameSeqs(FieldNames), rs \in NameSeqs(FieldNames) :
       schema = LongRecord(ws) /\ reader = LongRecord(rs)
  /\ enc = ValidatingEncoder(schema)
  /\ dec = NoDecoder
  /\ phase = "enc"
  /\ encLog = <<>>
  /\ decLog = <<>>
  /\ lastOp = NoOp

NextG == Open \/ FieldOrder \/ ReadDatum

SpecG == InitG /\ [][NextG]_vars

(***************************************************************************)
(* What the claims about the resolving decoder are stated with.            *)
(***************************************************************************)
\* Every call the decoder has accepted so far read a whole datum.
OnlyDatums(log) == \A i \in 1..Len(log) : log[i].kind = "datum"

\* The step is a call of GenericReader::read.
ReadsDatum == lastOp' = Op("dec", "read", "none")

\* The decoder is at the start of a datum that was written.
Available ==
  /\ dec.input = enc.out
  /\ OnlyDatums(decLog)
  /\ Len(decLog) < Len(encLog)

\* The datum the next read is to return, as the writer wrote it.
Written == datumValue(encLog[Len(decLog) + 1].val)

\* The number of bytes the first k datums written take.
RECURSIVE PrefixLen(_)
PrefixLen(k) ==
  IF k = 0 THEN 0 ELSE PrefixLen(k - 1) + Len(getAvroBinary(encLog[k].val))

\* The position of a name in a sequence of names (0: not there).
IndexOf(ns, x) == IF x \in Range(ns) THEN CHOOSE i \in 1..Len(ns) : ns[i] = x ELSE 0

(***************************************************************************)
(* C5.  Writer fields [a, b, c], reader fields [c, a]: fieldOrder()        *)
(* returns [1, 0], and the values are read in that order: a first, into    *)
(* reader field 1, then c, into reader field 0; read leaf by leaf, the     *)
(* decoder accepts decodeLong (a) and then decodeBool (c), record after    *)
(* record.                                                                 *)
(***************************************************************************)
ReorderedFields ==
  [][(schema = WriterABC /\ reader = ReaderCA) =>
       /\ (lastOp' = Op("dec", "fieldOrder", "none") /\ OnlyDatums(decLog))
            => (dec'.err = "" /\ dec'.order = <<1, 0>>)
       /\ (ReadsDatum /\ Available)
            => /\ dec'.err = ""
               /\ dec'.order = <<1, 0>>
               /\ dec'.val = <<Written[3], Written[1]>>
       /\ \A i \in 1..Len(Leaves(decLog')) :
            /\ Leaves(decLog')[i].kind = (IF i % 2 = 1 THEN "Long" ELSE "Bool")
            /\ Leaves(decLog') = decLog' =>
                 Leaves(decLog')[i].val =
                   datumValue(encLog[(i + 1) \div 2].val)[IF i % 2 = 1 THEN 1 ELSE 3]
    ]_vars

\* Two records have been read whole, and the field order was [1, 0].
ReorderedFieldsWitness ==
  /\ schema = WriterABC /\ reader = ReaderCA
  /\ dec.err = "" /\ dec.order = <<1, 0>>
  /\ Len(decLog) = 2 /\ OnlyDatums(decLog)
  /\ decLog[2].val = <<TRUE, -65>>

(***************************************************************************)
(* C6.  The fieldOrder vector of a (writer record, reader record) pair is  *)
(* a permutation of the reader's field indices 0 .. n-1: the matched       *)
(* fields in the order of the writer's fields, then the reader's other     *)
(* fields in the reader's order.                                           *)
(***************************************************************************)
\* The reader indices of the writer's fields that the reader has.
MatchedIndices ==
  LET ws == SelectSeq(schema.names, LAMBDA x : x \in Range(reader.names))
  IN [i \in 1..Len(ws) |-> IndexOf(reader.names, ws[i]) - 1]

\* The indices of the reader's fields that the writer does not have.
RemainingIndices ==
  SelectSeq(declaredOrder(Len(reader.names)),
            LAMBDA j : reader.names[j + 1] \notin Range(schema.names))

\* The fieldOrder vector in the grammar the resolver built for the pair.
BuiltFieldOrder == dec.stack[1].main[Len(dec.stack[1].main) - 1].order

FieldOrderPermutation ==
  phase = "dec" =>
    /\ Len(BuiltFieldOrder) = Len(reader.names)
    /\ \A j \in 0..(Len(reader.names) - 1) :
         Cardinality({i \in 1..Len(BuiltFieldOrder) : BuiltFieldOrder[i] = j}) = 1
    /\ BuiltFieldOrder = MatchedIndices \o RemainingIndices
    /\ (lastOp = Op("dec", "fieldOrder", "none") /\ dec.err = "")
         => dec.order = BuiltFieldOrder

\* Writer [c, a], reader [a, b, c]: the order is [2, 0, 1].
FieldOrderPermutationWitness ==
  /\ schema.names = <<"c", "a">> /\ reader.names = <<"a", "b", "c">>
  /\ lastOp = Op("dec", "fieldOrder", "none") /\ dec.err = ""
  /\ dec.order = <<2, 0, 1>>

(***************************************************************************)
(* C7.  A writer field that the reader does not have is skipped: its bytes *)
(* are consumed, no value is surfaced for it, and the fields that follow   *)
(* are read from the right position.  Reading a datum returns the writer's *)
(* values of the reader's fields, and once the skips still pending have    *)
(* been carried out the cursor is at the end of the datum's bytes.         *)
(***************************************************************************)
SkipPairs == {<<WriterABC, ReaderCA>>, <<WriterComplex, ReaderRe>>, <<WriterNK, WriterK>>}

\* The writer's values of the reader's fields.
Projection ==
  [i \in 1..Len(reader.names) |-> Written[IndexOf(schema.names, reader.names[i])]]

SkippedFieldConsumed ==
  [][(<<schema, reader>> \in SkipPairs /\ ReadsDatum /\ Available) =>
       /\ dec'.err = ""
       /\ dec'.val = Projection
       /\ processImplicitActions(dec').pos = PrefixLen(Len(decLog) + 1)
    ]_vars

\* (re = 3, im = 5) and then (re = -65, im = 3) were written; (re = 3) and
\* (re = -65) have been read.
SkippedFieldConsumedWitness ==
  /\ schema = WriterComplex /\ reader = ReaderRe
  /\ Len(encLog) = 2
  /\ datumValue(encLog[1].val) = <<3, 5>> /\ datumValue(encLog[2].val) = <<-65, 3>>
  /\ dec.err = "" /\ Len(decLog) = 2 /\ OnlyDatums(decLog)
  /\ decLog[1].val = <<3>> /\ decLog[2].val = <<-65>>

(***************************************************************************)
(* C8.  A reader field that the writer does not have is given the value    *)
(* that decoding its default bytes under the field's schema gives; where   *)
(* those bytes do not decode, the read fails.                              *)
(***************************************************************************)
DefaultPairs ==
  {<<WriterNone, ReaderF>>, <<WriterNone, ReaderFNoDefault>>, <<WriterK, ReaderNKS>>}

\* The fields of the reader that the writer does not have.
DefaultedFields == {i \in 1..Len(reader.names) : reader.names[i] \notin Range(schema.names)}

\* A plain binary decode of the default bytes of reader field i.
plainDecode(i) ==
  GenericReader_read(
    ValidatingDecoder(reader.leaves[i], getAvroBinary(reader.defaultValues[i])),
    reader.leaves[i])

DefaultFromBytes ==
  [][(/\ <<schema, reader>> \in DefaultPairs
      /\ ReadsDatum
      /\ OnlyDatums(decLog)
      /\ (schema = WriterNone \/ Available)) =>
       IF \A i \in DefaultedFields : plainDecode(i).err = ""
       THEN /\ dec'.err = ""
            /\ \A i \in DefaultedFields : dec'.val[i] = plainDecode(i).val
       ELSE dec'.err # ""
    ]_vars

\* The record default of n and the string default of s have been read, twice.
DefaultFromBytesWitness ==
  /\ schema = WriterK /\ reader = ReaderNKS
  /\ dec.err = "" /\ Len(decLog) = 2 /\ OnlyDatums(decLog)
  /\ decLog[2].val[1] = <<<<64, 9, 33, 251, 84, 68, 45, 24>>, 0>>
  /\ decLog[2].val[3] = <<100, 102>>

(***************************************************************************)
(* C9.  Reading a defaulted field takes no byte of the writer's stream: a  *)
(* leaf read that is served from default bytes leaves the cursor of the    *)
(* writer's stream where it was, a datum whose writer fields are all       *)
(* matched leaves it at the end of the datum's bytes, and with a writer    *)
(* that has no fields every stream reads as the default value.             *)
(***************************************************************************)
DefaultConsumesNothing ==
  [][/\ (/\ <<schema, reader>> \in DefaultPairs
         /\ lastOp'.name = "decode"
         /\ dec'.err = ""
         /\ dec'.base_ = "bin") => dec'.pos = dec.pos
     /\ (<<schema, reader>> = <<WriterK, ReaderNKS>> /\ ReadsDatum /\ Available) =>
          (dec'.err = "" /\ dec'.pos = PrefixLen(Len(decLog) + 1))
     /\ (<<schema, reader>> = <<WriterNone, ReaderF>> /\ ReadsDatum /\ OnlyDatums(decLog)) =>
          (dec'.err = "" /\ dec'.val = <<100>> /\ dec'.pos = 0)
    ]_vars

\* A stream no encoder wrote has been read twice as (f = 100).
DefaultConsumesNothingWitness ==
  /\ schema = WriterNone /\ reader = ReaderF
  /\ dec.input = <<200, 1, 9>>
  /\ dec.err = "" /\ Len(decLog) = 2 /\ OnlyDatums(decLog)
  /\ decLog[2].val = <<100>>
  /\ dec.pos = 0

(***************************************************************************)
(* C10.  DefaultStart saves the decoder in use and DefaultEnd restores it: *)
(* the saved slot is occupied exactly while the scratch decoder is in use, *)
(* and what it holds is the decoder over the writer's stream; no           *)
(* DefaultStart is handled while the slot is occupied (the slot would then *)
(* hold the scratch decoder), and after DefaultEnd the decoder in use is   *)
(* the one over the writer's stream again.                                 *)
(***************************************************************************)
SavedDecoderRestored ==
  phase = "dec" =>
    \/ (dec.base_ = "base" /\ dec.backup_ = "null")
    \/ (dec.base_ = "bin" /\ dec.backup_ = "base")

\* Two default brackets were passed within one datum, and the next datum's
\* first field has been read from the writer's stream again.
SavedDecoderRestoredWitness ==
  /\ schema = WriterK /\ reader = ReaderNKS
  /\ dec.err = "" /\ Len(decLog) = 2
  /\ decLog[1].kind = "datum" /\ decLog[2].kind = "Int"
  /\ dec.base_ = "base" /\ dec.backup_ = "null"
  /\ dec.pos = Len(dec.input)


(***************************************************************************)
(* The runs over primitives and unions: a client writes through a          *)
(* validating encoder for the writer schema, call by call, opens a         *)
(* resolving decoder for the (writer, reader) pair over the bytes written, *)
(* and reads call by call.                                                 *)
(***************************************************************************)
ScalarTypes == {"int", "long", "float", "double", "string"}

ScalarPairs == {<<Prim(a), Prim(b)>> : a \in ScalarTypes, b \in ScalarTypes}

\* Readers that are unions.
ReaderUnions ==
  {UnionNode(<<Prim("float")>>),
   UnionNode(<<Prim("string"), Prim("float")>>),
   UnionNode(<<Prim("double"), Prim("long")>>),
   UnionNode(<<Prim("long"), Prim("int")>>),
   UnionNode(<<Prim("float"), Prim("double"), Prim("double")>>),
   UnionNode(<<Prim("boolean"), Prim("bytes")>>),
   UnionNode(<<RecInner, WriterK, RecIS>>)}

UnionReaderPairs ==
  {<<w, r>> : w \in {Prim("int"), Prim("long"), Prim("float"), Prim("string"), RecIS},
              r \in ReaderUnions}

\* Writers that are unions.
WriterUnions ==
  {UnionNode(<<Prim("int"), Prim("string")>>),
   UnionNode(<<Prim("null"), Prim("long")>>),
   UnionNode(<<RecIS, Prim("float")>>)}

UnionWriterPairs ==
  {<<w, r>> : w \in WriterUnions,
              r \in {Prim("int"), Prim("long"), Prim("double"), Prim("string"), ReaderSL}}

UnionPairs == ScalarPairs \cup UnionReaderPairs \cup UnionWriterPairs

InitU ==
  /\ \E p \in UnionPairs : schema = p[1] /\ reader = p[2]
  /\ enc = ValidatingEncoder(schema)
  /\ dec = NoDecoder
  /\ phase = "enc"
  /\ encLog = <<>>
  /\ decLog = <<>>
  /\ lastOp = NoOp

BranchIndexes == {0, 1, 2}

\* The client calls encodeUnionIndex(j).
EncUnionIndex ==
  \E j \in BranchIndexes :
    EncStructural("unionIndex", ValidatingEncoder_encodeUnionIndex(enc, j), j)

\* The client calls decodeUnionIndex() on the resolving decoder.
ResolveUnionIndex ==
  /\ DecReady
  /\ dec' = ResolvingDecoder_decodeUnionIndex(dec)
  /\ decLog' = Logged(decLog, dec', "unionIndex", dec'.val)
  /\ lastOp' = Op("dec", "unionIndex", "none")
  /\ UNCHANGED <<schema, reader, enc, phase, encLog>>

NextU ==
  \/ EncodeNull \/ EncodeBool \/ EncodeInt \/ EncodeLong
  \/ EncodeFloat \/ EncodeDouble \/ EncodeString \/ EncodeBytes
  \/ EncUnionIndex \/ Open
  \/ ResolveNull \/ ResolveBool \/ ResolveInt \/ ResolveLong
  \/ ResolveFloat \/ ResolveDouble \/ ResolveString \/ ResolveBytes
  \/ ResolveUnionIndex \/ FieldOrder

SpecU == InitU /\ [][NextU]_vars

\* The writer's kind may be read as kind k by promotion.
Promotable(wk, k) ==
  \/ k = "Long" /\ wk = "Int"
  \/ k = "Float" /\ wk \in {"Int", "Long"}
  \/ k = "Double" /\ wk \in {"Int", "Long", "Float"}

\* The float and the double nearest to the integers written, and the doubles
\* equal to the floats written, as IEEE 754 bytes.
IntAsFloat ==
  (-1 :> <<191, 128, 0, 0>>) @@ (64 :> <<66, 128, 0, 0>>) @@
  (3 :> <<64, 64, 0, 0>>) @@ (-65 :> <<194, 130, 0, 0>>)

IntAsDouble ==
  (-1 :> <<191, 240, 0, 0, 0, 0, 0, 0>>) @@ (64 :> <<64, 80, 0, 0, 0, 0, 0, 0>>) @@
  (3 :> <<64, 8, 0, 0, 0, 0, 0, 0>>) @@ (-65 :> <<192, 80, 64, 0, 0, 0, 0, 0>>)

FloatAsDouble ==
  (<<63, 128, 0, 0>> :> <<63, 240, 0, 0, 0, 0, 0, 0>>) @@
  (<<192, 64, 0, 1>> :> <<192, 8, 0, 0, 32, 0, 0, 0>>)

Widened(wk, v, k) ==
  CASE k = "Long" -> v
    [] k = "Float" -> IntAsFloat[v]
    [] k = "Double" /\ wk = "Float" -> FloatAsDouble[v]
    [] k = "Double" /\ wk # "Float" -> IntAsDouble[v]

\* Both schemas are primitives.
ScalarPair == <<schema, reader>> \in ScalarPairs

(***************************************************************************)
(* C12.  For a writer type promotable to the reader type (int to long; int *)
(* or long to float; int, long or float to double), the reader's           *)
(* decodeLong / decodeFloat / decodeDouble reads the value with the        *)
(* writer type's decode function (the cursor moves over the writer's       *)
(* encoding) and returns it widened to the reader type.                    *)
(***************************************************************************)
PromotionReads ==
  [][\A k \in {"Long", "Float", "Double"} :
       (/\ ScalarPair
        /\ KindOfType(reader.type) = k
        /\ Promotable(KindOfType(schema.type), k)
        /\ lastOp' = Op("dec", "decode", k)
        /\ dec.input = enc.out
        /\ Len(decLog) < Len(encLog))
         => /\ dec'.err = ""
            /\ dec'.val = Widened(KindOfType(schema.type), encLog[Len(decLog) + 1].val, k)
            /\ dec'.pos = dec.pos + Len(binEncodeLeaf(KindOfType(schema.type),
                                                      encLog[Len(decLog) + 1].val))
    ]_vars

\* The longs 3 and -65 have been read as the floats 3.0 and -65.0.
PromotionReadsWitness ==
  /\ schema = Prim("long") /\ reader = Prim("float")
  /\ dec.err = "" /\ Len(decLog) = 2
  /\ encLog[1].val = 3 /\ encLog[2].val = -65
  /\ decLog[1].kind = "Float" /\ decLog[1].val = <<64, 64, 0, 0>>
  /\ decLog[2].kind = "Float" /\ decLog[2].val = <<194, 130, 0, 0>>
  /\ dec.pos = Len(dec.input)

(***************************************************************************)
(* C13.  Promotion is one-way.  The reverse of a promotion (writer long    *)
(* with reader int, writer double with reader float, ...) resolves to a    *)
(* production that is the error symbol alone: the decoder is constructed   *)
(* without failure, and every call on it fails with SchemaIncompatible,    *)
(* reading nothing.  (As claimed, with "at the first decoder call" for "at *)
(* resolution time".)                                                      *)
(***************************************************************************)
\* The pair is the reverse of a promotion.
Demotion ==
  /\ ScalarPair
  /\ Promotable(KindOfType(reader.type), KindOfType(schema.type))

\* The production the resolver built for the pair.
BuiltProduction == dec.stack[1].main

ReverseFailsAtFirstCall ==
  (phase = "dec" /\ Demotion) =>
    /\ BuiltProduction = <<errorSymbol>>
    /\ lastOp = Op("dec", "open", "none") => dec.err = ""
    /\ lastOp # Op("dec", "open", "none") => dec.err = "SchemaIncompatible"
    /\ dec.pos = 0 /\ decLog = <<>>

\* A long was written; decodeInt on the decoder for (long, int) has failed.
ReverseFailsWitness ==
  /\ schema = Prim("long") /\ reader = Prim("int")
  /\ Len(encLog) >= 1
  /\ lastOp = Op("dec", "decode", "Int")
  /\ dec.err = "SchemaIncompatible" /\ dec.pos = 0

\* C13 as stated: the reverse of a promotion has failed with
\* SchemaIncompatible once the pair has been resolved.
ReverseFailsAtResolution ==
  (phase = "dec" /\ Demotion) => dec.err = "SchemaIncompatible"


(***************************************************************************)
(* C14.  For a non-union writer and a union reader, the branch selected is *)
(* the first branch of exactly the writer's type (with equal name for a    *)
(* named type); failing that, the first branch the writer is numerically   *)
(* promotable to (int to long, float or double; long to float or double;   *)
(* float to double); failing both, the production is the error symbol.     *)
(***************************************************************************)
\* The reader branch in the production built for the pair: the one its
\* UnionAdjust symbol carries, -1 where the production is the error symbol.
SelectedBranch ==
  IF BuiltProduction[1].kind = "UnionAdjust" THEN BuiltProduction[1].branch ELSE -1

\* The branch the statement above names, from 0; -1 for none.
ClaimedBranch ==
  LET exact == {j \in 1..Len(reader.leaves) :
                  /\ reader.leaves[j].type = schema.type
                  /\ schema.type = "record" => reader.leaves[j].name = schema.name}
      wider == {j \in 1..Len(reader.leaves) :
                  /\ isPrimitive(schema.type) /\ isPrimitive(reader.leaves[j].type)
                  /\ Promotable(KindOfType(schema.type), KindOfType(reader.leaves[j].type))}
  IN IF exact # {} THEN firstOf(exact) - 1
     ELSE IF wider # {} THEN firstOf(wider) - 1
     ELSE -1

BestBranchAsClaimed ==
  (phase = "dec" /\ <<schema, reader>> \in UnionReaderPairs) =>
    SelectedBranch = ClaimedBranch


(***************************************************************************)
(* C15.  For a writer union whose datum is of branch j and a non-union     *)
(* reader, a decoder call at the start of the datum does what the same     *)
(* call does on a decoder resolved for the non-union writer of branch j    *)
(* over the bytes after the branch index: it succeeds or fails alike,      *)
(* returns the same value (or field order), reads the same bytes and       *)
(* expects the same calls afterwards.                                      *)
(***************************************************************************)
\* The branch index at the cursor.
BranchTag == binDecodeLong(dec.input, dec.pos)

\* The decoder is at the start of a datum whose branch index can be read.
AtBranchTag ==
  /\ <<schema, reader>> \in UnionWriterPairs
  /\ Len(dec.stack) = 1
  /\ BranchTag.ok
  /\ BranchTag.val \in 0..(Len(schema.leaves) - 1)

\* A decoder resolved for the writer's branch at the cursor, over the bytes
\* that follow the branch index.
BranchDecoder ==
  ResolvingDecoder(schema.leaves[BranchTag.val + 1], reader,
                   SubSeq(dec.input, BranchTag.pos + 1, Len(dec.input)))

\* The decoder d1 has done what the branch's decoder b did, off bytes further.
SameAsBranch(d1, b, off) ==
  /\ d1.err = b.err
  /\ d1.err = "" =>
       /\ d1.val = b.val
       /\ d1.pos = off + b.pos
       /\ Tail(d1.stack) = Tail(b.stack)

\* The same, for a call of fieldOrder: the orders returned are the same too.
SameOrderAsBranch(d1, b, off) ==
  /\ SameAsBranch(d1, b, off)
  /\ d1.err = "" => d1.order = b.order

WriterUnionAsBranch ==
  [][/\ \A k \in LeafKinds :
          (AtBranchTag /\ lastOp' = Op("dec", "decode", k)) =>
            SameAsBranch(dec', ResolvingDecoder_decode(BranchDecoder, k), BranchTag.pos)
     /\ (AtBranchTag /\ lastOp' = Op("dec", "fieldOrder", "none")) =>
            SameOrderAsBranch(dec', ResolvingDecoder_fieldOrder(BranchDecoder), BranchTag.pos)
    ]_vars

\* Branch 1 (long) of ["null", "long"] was written with the value 3, then
\* branch 0; the reader "double" has read 3.0 and has then failed on null.
WriterUnionWitness ==
  /\ schema = UnionNode(<<Prim("null"), Prim("long")>>) /\ reader = Prim("double")
  /\ dec.input = <<2, 6, 0>>
  /\ Len(decLog) = 1 /\ decLog[1].kind = "Double"
  /\ decLog[1].val = <<64, 8, 0, 0, 0, 0, 0, 0>>
  /\ lastOp = Op("dec", "decode", "Double")
  /\ dec.err = "SchemaIncompatible"


(***************************************************************************)
(* The runs of a resolving decoder whose writer and reader schemas are the *)
(* same: a client writes through a validating encoder, call by call, opens *)
(* the resolving decoder over the bytes written, and reads call by call.   *)
(***************************************************************************)
UnionNL == UnionNode(<<Prim("null"), Prim("long")>>)

RecUnion ==
  RecordNode("ru", <<UnionNode(<<Prim("int"), Prim("string")>>), Prim("boolean")>>,
             <<"u", "b">>, NoDefaults(2))

IdentitySchemas ==
  ValidatingSchemas \cup
  {UnionNL, RecUnion, UnionNode(<<RecIS, Prim("float")>>), ArrayNode(UnionNL)}

InitI ==
  /\ schema \in IdentitySchemas
  /\ reader = schema
  /\ enc = ValidatingEncoder(schema)
  /\ dec = NoDecoder
  /\ phase = "enc"
  /\ encLog = <<>>
  /\ decLog = <<>>
  /\ lastOp = NoOp

\* A call on the resolving decoder that is not a leaf; it leaves d.
ResolveStructural(name, d) ==
  /\ DecReady
  /\ dec' = d
  /\ decLog' = Logged(decLog, dec', name, dec'.val)
  /\ lastOp' = Op("dec", name, "none")
  /\ UNCHANGED <<schema, reader, enc, phase, encLog>>

ResolveArrayStart == ResolveStructural("arrayStart", ResolvingDecoder_arrayStart(dec))

ResolveArrayNext == ResolveStructural("arrayNext", ResolvingDecoder_arrayNext(dec))

NextI ==
  \/ EncodeNull \/ EncodeBool \/ EncodeInt \/ EncodeLong
  \/ EncodeFloat \/ EncodeDouble \/ EncodeString \/ EncodeBytes
  \/ EncArrayStart \/ EncArrayEnd \/ EncSetItemCount \/ EncStartItem
  \/ EncUnionIndex \/ Open
  \/ ResolveNull \/ ResolveBool \/ ResolveInt \/ ResolveLong
  \/ ResolveFloat \/ ResolveDouble \/ ResolveString \/ ResolveBytes
  \/ ResolveArrayStart \/ ResolveArrayNext \/ ResolveUnionIndex \/ FieldOrder

SpecI == InitI /\ [][NextI]_vars

\* The name a call is logged under.
CallName(op) == IF op.name = "decode" THEN op.kind ELSE op.name

\* The call of that name on a validating decoder, which has no fieldOrder.
ValidatingCall(vd, name) ==
  CASE name \in LeafKinds -> ValidatingDecoder_decode(vd, name)
    [] name = "arrayStart" -> ValidatingDecoder_arrayStart(vd)
    [] name = "arrayNext" -> ValidatingDecoder_arrayNext(vd)
    [] name = "unionIndex" -> ValidatingDecoder_decodeUnionIndex(vd)
    [] name = "fieldOrder" -> vd

\* The validating decoder after the calls of a log.
RECURSIVE Replay(_, _)
Replay(vd, log) ==
  IF Len(log) = 0 THEN vd ELSE Replay(ValidatingCall(vd, Head(log).kind), Tail(log))

\* The kinds of the symbols of a production and of the productions in it.
RECURSIVE kindsOf(_)
kindsOf(prod) ==
  UNION {{prod[i].kind} \cup
         (CASE prod[i].kind \in {"Indirect", "UnionAdjust"} -> kindsOf(prod[i].prod)
            [] prod[i].kind = "Repeater" ->
                 kindsOf(prod[i].prod) \cup kindsOf(prod[i].skipProd)
            [] prod[i].kind = "Alternative" ->
                 UNION {kindsOf(prod[i].branches[j]) : j \in 1..Len(prod[i].branches)}
            [] OTHER -> {}) : i \in 1..Len(prod)}

\* The resolving decoder d1 and the validating decoder v1 have answered the
\* call of that name alike.
SameAsValidating(d1, v1, name) ==
  /\ name # "fieldOrder" => ((d1.err = "") <=> (v1.err = ""))
  /\ d1.err = "" =>
       /\ d1.pos = v1.pos
       /\ d1.base_ = "base"
       /\ IF name = "fieldOrder" THEN d1.order = declaredOrder(Len(d1.order))
          ELSE d1.val = v1.val

(***************************************************************************)
(* C11.  With writer schema = reader schema = S, the resolving decoder     *)
(* accepts exactly the calls the validating decoder for S accepts after    *)
(* the same calls, and returns the same values; fieldOrder() returns the   *)
(* identity permutation and reads nothing; the grammar holds no skip and   *)
(* no default action, and the decoder in use is never swapped.             *)
(***************************************************************************)
IdentityResolution ==
  [][(lastOp'.side = "dec" /\ lastOp'.name # "open") =>
       /\ SameAsValidating(dec',
            ValidatingCall(Replay(ValidatingDecoder(schema, dec.input), decLog),
                           CallName(lastOp')),
            lastOp'.name)
       /\ kindsOf(BuiltProduction) \cap {"SkipStart", "DefaultStart", "DefaultEnd"} = {}
    ]_vars

\* A record of a union and a boolean was written as (branch 1, "xy", TRUE)
\* and read back with fieldOrder, decodeUnionIndex and the two leaf calls.
IdentityResolutionWitness ==
  /\ schema = RecUnion /\ dec.err = ""
  /\ Len(decLog) = 4
  /\ [i \in 1..4 |-> decLog[i].kind] = <<"fieldOrder", "unionIndex", "String", "Bool">>
  /\ decLog[1].val = <<0, 1>> /\ decLog[2].val = 1
  /\ decLog[3].val = <<120, 121>> /\ decLog[4].val = TRUE
  /\ dec.pos = Len(dec.input)


(***************************************************************************)
(* The runs that resolve a primitive writer against a reader.              *)
(***************************************************************************)
ResolveReaders == {Prim(t) : t \in PrimitiveTypes} \cup ReaderUnions

InitV ==
  /\ schema \in {Prim(t) : t \in PrimitiveTypes}
  /\ reader \in ResolveReaders
  /\ enc = ValidatingEncoder(schema)
  /\ dec = NoDecoder
  /\ phase = "enc"
  /\ encLog = <<>>
  /\ decLog = <<>>
  /\ lastOp = NoOp

\* The client calls writer.resolve(reader); the result is kept in lastOp.
Resolve ==
  /\ lastOp' = Op("node", "resolve", NodePrimitive_resolve(schema, reader))
  /\ UNCHANGED <<schema, reader, enc, dec, phase, encLog, decLog>>

NextV == Resolve

SpecV == InitV /\ [][NextV]_vars

(***************************************************************************)
(* C20.  For primitive writer and reader nodes, resolve returns MATCH iff  *)
(* both have the same type, PROMOTABLE_TO_LONG for int to long,            *)
(* PROMOTABLE_TO_FLOAT for int or long to float, PROMOTABLE_TO_DOUBLE for  *)
(* int, long or float to double, and NO_MATCH for every other pair.        *)
(***************************************************************************)
PrimitiveResolution ==
  (lastOp.name = "resolve" /\ isPrimitive(reader.type)) =>
    /\ lastOp.kind = "MATCH" <=> schema.type = reader.type
    /\ lastOp.kind = "PROMOTABLE_TO_LONG" <=> (schema.type = "int" /\ reader.type = "long")
    /\ lastOp.kind = "PROMOTABLE_TO_FLOAT" <=>
         (schema.type \in {"int", "long"} /\ reader.type = "float")
    /\ lastOp.kind = "PROMOTABLE_TO_DOUBLE" <=>
         (schema.type \in {"int", "long", "float"} /\ reader.type = "double")
    /\ lastOp.kind = "NO_MATCH" <=>
         ~(\/ schema.type = reader.type
           \/ schema.type = "int" /\ reader.type \in {"long", "float", "double"}
           \/ schema.type = "long" /\ reader.type \in {"float", "double"}
           \/ schema.type = "float" /\ reader.type = "double")

\* long against float has been resolved as PROMOTABLE_TO_FLOAT.
PrimitiveResolutionWitness ==
  /\ schema = Prim("long") /\ reader = Prim("float")
  /\ lastOp = Op("node", "resolve", "PROMOTABLE_TO_FLOAT")


(***************************************************************************)
(* Building a node.  A node under construction has its leaves, its leaf    *)
(* names (field names of a record, symbols of an enum) and nameIndex, the  *)
(* index of the leaf names: a set of <<name, position>> pairs.  An         *)
(* operation returns the node it leaves and the exception it threw ("":    *)
(* none).                                                                  *)
(***************************************************************************)
Done(node) == [node |-> node, err |-> ""]

Thrown(node, e) == [node |-> node, err |-> e]

\* NameIndexConcept::add: false, and nothing added, if the name is there.
nameIndex_add(index, name, i) ==
  IF \E q \in index : q[1] = name THEN [ok |-> FALSE, index |-> index]
  ELSE [ok |-> TRUE, index |-> index \cup {<<name, i>>}]

\* A bug: the name is appended without asking the index.
doAddNameUnchecked(node, name) == Done([node EXCEPT !.names = Append(@, name)])

\* NodeImpl::doAddName
doAddName(node, name) ==
  IF ~nameIndex_add(node.nameIndex, name, Len(node.names)).ok
  THEN Thrown(node, "DuplicateName")
  ELSE Done([node EXCEPT !.nameIndex = nameIndex_add(@, name, Len(node.names)).index,
                         !.names = Append(@, name)])

\* NodeImpl::doAddLeaf
doAddLeaf(node, leaf) == [node EXCEPT !.leaves = Append(@, leaf)]

\* The leaf is added to the node that addName left, unless addName threw.
thenAddLeaf(a, leaf) == IF a.err # "" THEN a ELSE Done(doAddLeaf(a.node, leaf))

\* A bug: the leaf is added before the name.
RecordSchema_addFieldLeafFirst(node, name, leaf) == doAddName(doAddLeaf(node, leaf), name)

RecordSchema_addField(node, name, leaf) == thenAddLeaf(doAddName(node, name), leaf)

\* RecordSchema::RecordSchema(name): an empty NodeRecord with its name set.
RecordSchema(name) ==
  [type |-> "record", name |-> name, leaves |-> <<>>, names |-> <<>>,
   defaultValues |-> <<>>, nameIndex |-> {}]

\* NodeEnum(): an empty enum node.
NodeEnum == [type |-> "enum", name |-> "", leaves |-> <<>>, names |-> <<>>, nameIndex |-> {}]

\* The loop of the NodeRecord and NodeEnum constructors: the names are put in
\* the index one after the other, until one is there already.
RECURSIVE indexNames(_, _, _)
indexNames(names, i, index) ==
  IF i > Len(names) THEN [ok |-> TRUE, index |-> index]
  ELSE IF ~nameIndex_add(index, names[i], i - 1).ok THEN [ok |-> FALSE, index |-> index]
  ELSE indexNames(names, i + 1, nameIndex_add(index, names[i], i - 1).index)

\* The node a constructor leaves, given what its loop did.
constructed(node, r) ==
  IF r.ok THEN Done([node EXCEPT !.nameIndex = r.index]) ELSE Thrown(node, "DuplicateName")

\* NodeRecord(name, fields, fieldsNames, dv); leafNodes are the fields.
NodeRecord(name, leafNodes, fieldsNames, dv) ==
  constructed([type |-> "record", name |-> name, leaves |-> leafNodes, names |-> fieldsNames,
               defaultValues |-> dv, nameIndex |-> {}],
              indexNames(fieldsNames, 1, {}))

\* NodeEnum(name, symbols)
NodeEnumOf(name, symbols) ==
  constructed([type |-> "enum", name |-> name, leaves |-> <<>>, names |-> symbols,
               nameIndex |-> {}],
              indexNames(symbols, 1, {}))

\* NodeRecord::isValid
NodeRecord_isValid(node) == node.name # "" /\ Len(node.leaves) = Len(node.names)

(***************************************************************************)
(* The runs that build nodes: a client constructs a node from a list of    *)
(* names (kept in reader when the constructor returns), and adds fields to *)
(* a record schema, or symbols to an enum node (kept in schema), one by    *)
(* one.  encLog holds the calls made with their name arguments, lastOp the *)
(* last call and its outcome.                                              *)
(***************************************************************************)
MaxNames == 3        \* names in the list a node is constructed from

\* The lists of at most n names.
RECURSIVE NameLists(_)
NameLists(n) ==
  IF n = 0 THEN {<<>>}
  ELSE NameLists(n - 1) \cup
       {Append(l, x) : l \in {m \in NameLists(n - 1) : Len(m) = n - 1}, x \in FieldNames}

FieldSchemas == {Prim("int"), Prim("string")}

NoNode == Prim("null")

InitB ==
  /\ schema \in {RecordSchema("r"), NodeEnum}
  /\ reader = NoNode
  /\ enc = NoDecoder
  /\ dec = NoDecoder
  /\ phase = "build"
  /\ encLog = <<>>
  /\ decLog = <<>>
  /\ lastOp = NoOp

Outcome(r) == IF r.err = "" THEN "ok" ELSE r.err

\* A call on the node in schema, with the name it was given; it returned r.
Built(r, op, name) ==
  /\ Len(encLog) < MaxCalls
  /\ schema' = r.node
  /\ encLog' = Append(encLog, Call(op, name))
  /\ lastOp' = Op("node", op, Outcome(r))
  /\ UNCHANGED <<reader, enc, dec, phase, decLog>>

\* RecordSchema::addField(name, fieldSchema)
AddField ==
  /\ schema.type = "record"
  /\ \E name \in FieldNames, leaf \in FieldSchemas :
       Built(RecordSchema_addField(schema, name, leaf), "addField", name)

\* Node::addName(name) on an enum node
AddName ==
  /\ schema.type = "enum"
  /\ \E name \in FieldNames : Built(doAddName(schema, name), "addName", name)

\* The constructor returned r: the node is kept unless it threw.
Constructed(r, names) ==
  /\ encLog = <<>>
  /\ reader' = IF r.err = "" THEN r.node ELSE reader
  /\ encLog' = <<Call("construct", names)>>
  /\ lastOp' = Op("node", "construct", Outcome(r))
  /\ UNCHANGED <<schema, enc, dec, phase, decLog>>

ConstructRecord ==
  \E names \in NameLists(MaxNames) :
    Constructed(NodeRecord("q", [i \in 1..Len(names) |-> Prim("long")], names,
                           NoDefaults(Len(names))), names)

ConstructEnum ==
  \E names \in NameLists(MaxNames) : Constructed(NodeEnumOf("q", names), names)

NextB == AddField \/ AddName \/ ConstructRecord \/ ConstructEnum

SpecB == InitB /\ [][NextB]_vars

\* No name is there twice.
Distinct(names) == \A i, j \in 1..Len(names) : names[i] = names[j] => i = j

\* The name argument of the call that the step makes.
NameGiven == encLog'[Len(encLog')].val

(***************************************************************************)
(* C18.  Attaching a field or symbol name that the node has already fails  *)
(* with DuplicateName, when the names are added one by one (addField on a  *)
(* record schema, addName on an enum node) and when a record or enum node  *)
(* is constructed from a list of names in which a name is repeated.        *)
(***************************************************************************)
DuplicateNameRejected ==
  [][/\ (lastOp'.name \in {"addField", "addName"} /\ NameGiven \in Range(schema.names))
          => lastOp'.kind = "DuplicateName"
     /\ (lastOp'.name = "construct" /\ encLog = <<>> /\ ~Distinct(NameGiven))
          => (lastOp'.kind = "DuplicateName" /\ reader' = reader)
    ]_vars

\* A record was constructed from a list of names; two fields were then added
\* to the record schema one by one, and a third addField, of a name that is
\* there, has failed.
DuplicateNameWitness ==
  /\ reader.type = "record" /\ schema.type = "record"
  /\ Len(schema.names) = 2 /\ Len(encLog) = 4
  /\ lastOp = Op("node", "addField", "DuplicateName")

(***************************************************************************)
(* C19.  An addField call that fails on a duplicate name leaves the record *)
(* as it was; after any sequence of addField calls, failed or not, the     *)
(* record has as many field names as leaves, its names are distinct, and   *)
(* it is valid.                                                            *)
(***************************************************************************)
AddFieldAtomic ==
  [][lastOp'.name = "addField" =>
       /\ lastOp'.kind = "DuplicateName" => schema' = schema
       /\ Len(schema'.names) = Len(schema'.leaves)
       /\ Distinct(schema'.names)
       /\ NodeRecord_isValid(schema')
    ]_vars

\* Of four addField calls, the second and the fourth failed: the record has
\* the two fields of the other two.
AddFieldWitness ==
  /\ schema.type = "record"
  /\ Len(encLog) = 4
  /\ [i \in 1..4 |-> encLog[i].val] = <<"a", "a", "b", "a">>
  /\ schema.names = <<"a", "b">> /\ Len(schema.leaves) = 2
  /\ lastOp = Op("node", "addField", "DuplicateName")

(***************************************************************************)
(* Grammars of cyclic schemas.  A program compiles a writer schema and a   *)
(* reader schema in which a record refers to itself, or two records to     *)
(* each other, and asks for the validating grammar of the writer schema    *)
(* or for the resolving grammar of the pair.  dec holds the grammar that   *)
(* generate returned.                                                      *)
(***************************************************************************)
LabelTypes == {"int", "long", "string"}

Null == Prim("null")

\* record Node { label: t; children: array<Node> }
NodeOf(t) ==
  RecordNode("Node", <<Prim(t), ArrayNode(SymbolicNode("Node"))>>,
             <<"label", "children">>, NoDefaults(2))

\* record List { value: t; next: union { null, List } }
ListOf(t) ==
  RecordNode("List", <<Prim(t), UnionNode(<<Null, SymbolicNode("List")>>)>>,
             <<"value", "next">>, NoDefaults(2))

\* record Tree { root: Node; others: array<Node> }
TreeOf(t) ==
  RecordNode("Tree", <<NodeOf(t), ArrayNode(SymbolicNode("Node"))>>,
             <<"root", "others">>, NoDefaults(2))

\* record A { x: t; b: union { null, record B { as: array<A> } } }
MutualOf(t) ==
  RecordNode("A",
    <<Prim(t),
      UnionNode(<<Null, RecordNode("B", <<ArrayNode(SymbolicNode("A"))>>,
                                   <<"as">>, NoDefaults(1))>>)>>,
    <<"x", "b">>, NoDefaults(2))

\* record Lisp { value: union { null, t, record Cons { car: Lisp; cdr: Lisp } } }
LispOf(t) ==
  RecordNode("Lisp",
    <<UnionNode(<<Null, Prim(t),
                  RecordNode("Cons", <<SymbolicNode("Lisp"), SymbolicNode("Lisp")>>,
                             <<"car", "cdr">>, NoDefaults(2))>>)>>,
    <<"value">>, NoDefaults(1))

CyclicRecords(t) == {NodeOf(t), ListOf(t), TreeOf(t), MutualOf(t), LispOf(t)}

CyclicSchemas ==
  UNION {CyclicRecords(t) \cup {ArrayNode(NodeOf(t)), UnionNode(<<Null, ListOf(t)>>)}
         : t \in LabelTypes}

\* record Meta { n: int }
Meta == RecordNode("Meta", <<Prim("int")>>, <<"n">>, NoDefaults(1))

\* The record n with one more field, which has a default value.
withField(n, name, leaf, dv) ==
  [n EXCEPT !.names = Append(@, name), !.leaves = Append(@, leaf),
            !.defaultValues = Append(@, dv)]

\* The record n without its last field.
withoutLast(n) ==
  [n EXCEPT !.names = SubSeq(@, 1, Len(@) - 1), !.leaves = SubSeq(@, 1, Len(@) - 1),
            !.defaultValues = SubSeq(@, 1, Len(@) - 1)]

\* The record n with its fields in the reverse order.
reordered(n) ==
  [n EXCEPT !.names = Reverse(@), !.leaves = Reverse(@), !.defaultValues = Reverse(@)]

\* Reader schemas for a record written as w.
ReaderRecords(w) ==
  {w, reordered(w), withoutLast(w),
   withField(w, "count", Prim("int"), Datum("int", 0)),
   withField(w, "meta", Meta, Datum("record", <<Datum("int", 1)>>))}

\* Reader schemas for the writer schema w: the schema itself, one of another
\* label type, records with the fields reordered, without the cyclic field,
\* or with a field more, a union that has the schema as a branch, and a
\* schema of another shape.
ReadersOf(w) ==
  CASE w.type = "record" ->
         ReaderRecords(w) \cup {UnionNode(<<Null, w>>), ArrayNode(w)}
         \cup {r \in UNION {CyclicRecords(t) : t \in LabelTypes} : r.name = w.name}
    [] w.type = "array" ->
         {w} \cup {ArrayNode(r) : r \in ReaderRecords(w.leaves[1])}
    [] w.type = "union" ->
         {w, w.leaves[2], UnionNode(<<w.leaves[2], Null>>)}
         \cup {UnionNode(<<Null, r>>) : r \in ReaderRecords(w.leaves[2])}

CyclicPairs == {p \in CyclicSchemas \X UNION {ReadersOf(w) : w \in CyclicSchemas} :
                  p[2] \in ReadersOf(p[1])}

InitC ==
  /\ \E p \in CyclicPairs : schema = p[1] /\ reader = p[2]
  /\ enc = NoDecoder
  /\ dec = NoDecoder
  /\ phase = "schema"
  /\ encLog = <<>>
  /\ decLog = <<>>
  /\ lastOp = NoOp

\* generate returned the grammar gr.
Generated(gr, name) ==
  /\ phase = "schema"
  /\ dec' = gr
  /\ phase' = name
  /\ lastOp' = Op("generator", name, Outcome(gr))
  /\ UNCHANGED <<schema, reader, enc, encLog, decLog>>

\* validatingEncoder(schema, base) or validatingDecoder(schema, base) is
\* called: ValidatingGrammarGenerator().generate(schema)
GenerateValidating == Generated(ValidatingGrammarGenerator_rooted(schema), "validating")

\* resolvingDecoder(writer, reader, base) is called:
\* ResolvingGrammarGenerator().generate(writer, reader)
GenerateResolving ==
  Generated(ResolvingGrammarGenerator_generate_m(schema, reader), "resolving")

NextC == GenerateValidating \/ GenerateResolving

SpecC == InitC /\ [][NextC]_vars

\* A grammar has been generated.
HasGrammar == phase \in {"validating", "resolving"}

\* The productions that the symbols of production p refer to, the links that
\* fixup has put in place of placeholders included.
linkedFrom(heap, p) ==
  heldBy(heap[p]) \cup {heap[p][i].prod : i \in {j \in 1..Len(heap[p]) :
                                                   heap[p][j].kind = "Symbolic"}}

RECURSIVE reachableFrom(_, _, _)
reachableFrom(heap, todo, seen) ==
  IF todo = {} THEN seen
  ELSE LET p == CHOOSE x \in todo : TRUE
       IN reachableFrom(heap, (todo \cup linkedFrom(heap, p)) \ (seen \cup {p}),
                        seen \cup {p})

\* The productions that a parser started at the root symbol can come to.
Reachable == reachableFrom(dec.heap, {dec.main, dec.backup} \ {0}, {})

HasKind(p, k) == \E i \in 1..Len(dec.heap[p]) : dec.heap[p][i].kind = k

Greatest(S) == IF S = {} THEN 0 ELSE CHOOSE x \in S : \A y \in S : y <= x

\* The number of nodes on the longest path from n to a leaf.
RECURSIVE nesting(_)
nesting(n) ==
  IF n.type \in {"record", "array", "union"}
  THEN 1 + Greatest({nesting(n.leaves[i]) : i \in 1..Len(n.leaves)})
  ELSE 1

(***************************************************************************)
(* C16.  Grammar construction terminates for a schema with cyclic records, *)
(* in the validating and in the resolving generator: no call of a          *)
(* generator is cut short, the calls in progress at one time are never     *)
(* more than the nodes on the longest paths of the two schemas, and a      *)
(* symbolic reference to a record under construction has made a            *)
(* placeholder.                                                            *)
(***************************************************************************)
CyclicTerminates ==
  HasGrammar =>
    /\ ~dec.diverged
    /\ dec.err = ""
    /\ dec.deepest <= nesting(schema) + nesting(reader)
    /\ dec.emitted >= 1

\* The resolving grammar of record Node { label: string; children:
\* array<Node> } against itself was generated: one placeholder was made for
\* the writer's grammar and one for the pair.
CyclicTerminatesWitness ==
  /\ phase = "resolving"
  /\ schema = NodeOf("string") /\ reader = schema
  /\ dec.emitted = 2
  /\ ~dec.diverged

RecA == RecordNode("A", <<Prim("int")>>, <<"x">>, NoDefaults(1))

RecB == RecordNode("B", <<Prim("string")>>, <<"y">>, NoDefaults(1))

\* NodeSymbolic::getNode(): the node that actualNode_ refers to.
getNode(n) == IF n.name = "A" THEN RecA ELSE RecB

ResolveLeaves ==
  {Prim(t) : t \in {"int", "long", "float", "double", "string"}}
  \cup {RecA, RecB, SymbolicNode("A"), SymbolicNode("B")}

ResolveUnions ==
  {UnionNode(<<a>>) : a \in ResolveLeaves}
  \cup {UnionNode(<<a, b>>) : a \in ResolveLeaves, b \in ResolveLeaves \ {RecB, SymbolicNode("B")}}

ResolveArrays == {ArrayNode(a) : a \in ResolveLeaves}

ResolveNodes == ResolveLeaves \cup ResolveUnions \cup ResolveArrays

InitN ==
  /\ schema \in ResolveNodes
  /\ reader \in ResolveNodes
  /\ enc = NoDecoder
  /\ dec = NoDecoder
  /\ phase = "node"
  /\ encLog = <<>>
  /\ decLog = <<>>
  /\ lastOp = NoOp

\* What a call that asked a node without leaves for its leaf comes to:
\* NoAttribute::get throws, or gives no node and the call through it
\* crashes.
NoLeafOutcomes == {"Exception", "Crash"}

\* The call has come to result k.
Resolved(k) ==
  /\ lastOp' = Op("node", "resolve", k)
  /\ UNCHANGED <<schema, reader, enc, dec, phase, encLog, decLog>>

\* The client calls writer.resolve(reader); the result is kept in lastOp.
ResolveNode ==
  \E k \in (IF Node_resolve(schema, reader) = "NoLeaf" THEN NoLeafOutcomes
            ELSE {Node_resolve(schema, reader)}) : Resolved(k)

NextN == ResolveNode

SpecN == InitN /\ [][NextN]_vars

SchemaResolutions ==
  {"MATCH", "PROMOTABLE_TO_LONG", "PROMOTABLE_TO_FLOAT", "PROMOTABLE_TO_DOUBLE", "NO_MATCH"}

\* The node with a symbolic node followed to its target.
followed(n) == IF n.type = "symbolic" THEN getNode(n) ELSE n

\* A symbolic node is somewhere in n.
RECURSIVE hasSymbolic(_)
hasSymbolic(n) ==
  \/ n.type = "symbolic"
  \/ n.type \in {"array", "union"} /\ \E i \in 1..Len(n.leaves) : hasSymbolic(n.leaves[i])

(***************************************************************************)
(* C21.  Symbolic nodes are transparent to resolve: with a symbolic node   *)
(* as the writer or as the reader, resolve returns a SchemaResolution, the *)
(* one it returns with the target of the symbolic node in its place.       *)
(***************************************************************************)
SymbolicTransparent ==
  (lastOp.name = "resolve" /\ (schema.type = "symbolic" \/ reader.type = "symbolic")) =>
    /\ lastOp.kind \in SchemaResolutions
    /\ lastOp.kind = Node_resolve(followed(schema), followed(reader))

\* The results of the reader's branches, each resolved alone.
branchResults == [i \in 1..Len(reader.leaves) |-> Node_resolve(schema, reader.leaves[i])]

\* MATCH if a branch matches; else what the first branch that is not
\* NO_MATCH gives; else NO_MATCH.
bestOf(results) ==
  IF \E i \in 1..Len(results) : results[i] = "MATCH" THEN "MATCH"
  ELSE IF \E i \in 1..Len(results) : results[i] # "NO_MATCH"
  THEN results[CHOOSE i \in 1..Len(results) :
                 /\ results[i] # "NO_MATCH"
                 /\ \A j \in 1..(i - 1) : results[j] = "NO_MATCH"]
  ELSE "NO_MATCH"

\* A call of resolve has returned for a reader that is a union, no symbolic
\* node being in the writer or in the reader.
UnionReaderResolved ==
  /\ lastOp.name = "resolve"
  /\ reader.type = "union"
  /\ ~hasSymbolic(schema) /\ ~hasSymbolic(reader)

RecID == RecordNode("r", <<Prim("int"), Prim("double")>>, <<"f1", "f2">>, NoDefaults(2))

JsonDecoderSchemas ==
  {Prim("int"), Prim("long"), Prim("float"), Prim("double"), Prim("string"), RecID}

JsonKinds == {"Int", "Long", "Float", "Double", "String"}

One == <<63, 240, 0, 0, 0, 0, 0, 0>>

JsonValues(k) ==
  CASE k = "Int" -> {-1, 2147483647, -2147483647 - 1}
    [] k = "Long" -> {3, -65}
    [] k = "Float" -> {<<63, 128, 0, 0>>, <<127, 128, 0, 0>>, <<255, 128, 0, 0>>,
                       <<127, 192, 0, 0>>}
    [] k = "Double" -> {One, <<127, 240, 0, 0, 0, 0, 0, 0>>, <<255, 240, 0, 0, 0, 0, 0, 0>>,
                        <<127, 248, 0, 0, 0, 0, 0, 0>>}
    [] k = "String" -> {"a", "NaN"}

\* The integers at and next to the limits of int32_t, and some far from
\* them; then tokens of the other kinds.
ValueTokens ==
  <<Tok("long", INT32_MAX), Tok("long", Int64(32768, 0)), Tok("long", INT32_MIN),
    Tok("long", Int64(-32769, 65535)), Tok("long", Int64(0, 7)),
    Tok("long", Int64(70000, 5)), Tok("long", Int64(-70000, 5)),
    Tok("double", One), Tok("string", "NaN"), Tok("string", "Infinity"),
    Tok("string", "-Infinity"), Tok("string", "a")>>

\* The text of a record with fields named a and b, and after it what tail
\* holds.
RecordText(open, a, b, tail) ==
  <<open, Tok("string", a), Tok("long", Int64(0, 7)), Tok("string", b), Tok("double", One)>>
    \o tail

Opens == <<Tok("objectStart", 0), Tok("arrayStart", 0)>>

Tails == <<<<>>, <<Tok("objectEnd", 0), Tok("objectStart", 0)>>, <<Tok("arrayEnd", 0)>>>>

RecordTexts ==
  [i \in 1..24 |->
     RecordText(Opens[((i - 1) % 2) + 1],
                <<"f1", "f2">>[(((i - 1) \div 2) % 2) + 1],
                <<"f2", "g">>[(((i - 1) \div 4) % 2) + 1],
                Tails[((i - 1) \div 8) + 1])]

\* Texts that did not come from the encoder.
ForeignTexts ==
  [i \in 1..Len(ValueTokens) |-> <<ValueTokens[i]>>] \o RecordTexts \o
  << <<>>,
     <<Tok("objectStart", 0), Tok("long", Int64(0, 7))>>,
     <<Tok("objectStart", 0), Tok("string", "f1"), Tok("long", Int64(32768, 0))>>,
     <<Tok("string", "f1"), Tok("long", Int64(0, 7))>> >>

InitJ ==
  /\ schema \in JsonDecoderSchemas
  /\ reader = schema
  /\ enc = JsonEncoder(schema)
  /\ dec = NoDecoder
  /\ phase = "enc"
  /\ encLog = <<>>
  /\ decLog = <<>>
  /\ lastOp = NoOp

\* The client calls a leaf operation of the JSON encoder.
JsonWrite ==
  \E k \in JsonKinds : \E v \in JsonValues(k) :
    JsonOp("encode", k, JsonEncoder_encode(enc, k, v), v)

\* The client flushes the encoder and constructs a JSON decoder on the text
\* written.
JsonOpen ==
  /\ phase = "enc"
  /\ enc.err = ""
  /\ dec' = JsonDecoder(schema, JsonParser_tokens(JsonEncoder_flush(enc).out))
  /\ phase' = "dec"
  /\ lastOp' = Op("jsonDecoder", "open", "none")
  /\ UNCHANGED <<schema, reader, enc, encLog, decLog>>

\* The client, having written nothing, constructs a JSON decoder on a text
\* from elsewhere.
JsonOpenForeign ==
  /\ phase = "enc"
  /\ encLog = <<>>
  /\ \E i \in 1..Len(ForeignTexts) : dec' = JsonDecoder(schema, ForeignTexts[i])
  /\ phase' = "dec"
  /\ lastOp' = Op("jsonDecoder", "open", "none")
  /\ UNCHANGED <<schema, reader, enc, encLog, decLog>>

\* The client calls the leaf operation of kind k on the JSON decoder.
JsonDecode ==
  \E k \in JsonKinds :
    /\ DecReady
    /\ dec' = JsonDecoder_decode(dec, k)
    /\ decLog' = Logged(decLog, dec', k, dec'.val)
    /\ lastOp' = Op("jsonDecoder", "decode", k)
    /\ UNCHANGED <<schema, reader, enc, phase, encLog>>

NextJ == JsonWrite \/ JsonOpen \/ JsonOpenForeign \/ JsonDecode

SpecJ == InitJ /\ [][NextJ]_vars

\* The step is a call of the JSON decoder's leaf operation of kind k that
\* the grammar allows, and the token it comes to is of kind tk.
DecodesToken(k, tk) ==
  /\ lastOp' = Op("jsonDecoder", "decode", k)
  /\ advance(dec, k).err = ""
  /\ advance(dec, k).pos < Len(dec.input)
  /\ dec.input[advance(dec, k).pos + 1].tok = tk

\* The token that the step of DecodesToken comes to.
TokenMet(k) == dec.input[advance(dec, k).pos + 1]

(***************************************************************************)
(* C23.  decodeInt of the JSON decoder fails with RangeError when the      *)
(* integer read is below -2^31 or above 2^31 - 1, and returns the integer  *)
(* unchanged when it is within these limits, the limits included.          *)
(***************************************************************************)
IntRangeChecked ==
  [][DecodesToken("Int", "long") =>
       IF lessThan(TokenMet("Int").val, INT32_MIN) \/ lessThan(INT32_MAX, TokenMet("Int").val)
       THEN dec'.err = "RangeError"
       ELSE dec'.err = "" /\ widened(dec'.val) = TokenMet("Int").val
    ]_vars

\* 2^31 - 1 has been read as an int, and another text with 2^31 has failed.
IntRangeWitness ==
  /\ lastOp = Op("jsonDecoder", "decode", "Int")
  /\ Len(dec.input) = 1 /\ dec.input[1].tok = "long" /\ dec.input[1].val = INT32_MAX
  /\ dec.err = "" /\ dec.val = 2147483647

IntRangeErrorWitness ==
  /\ lastOp = Op("jsonDecoder", "decode", "Int")
  /\ Len(dec.input) = 1 /\ dec.input[1].tok = "long" /\ dec.input[1].val = Int64(32768, 0)
  /\ dec.err = "RangeError"

SpecialName(v) ==
  IF v \in {<<127, 128, 0, 0>>, <<127, 240, 0, 0, 0, 0, 0, 0>>} THEN "Infinity"
  ELSE IF v \in {<<255, 128, 0, 0>>, <<255, 240, 0, 0, 0, 0, 0, 0>>} THEN "-Infinity"
  ELSE IF v \in {<<127, 192, 0, 0>>, <<127, 248, 0, 0, 0, 0, 0, 0>>} THEN "NaN"
  ELSE "none"

\* The float or double that a name stands for.
SpecialValue(k, name) ==
  CASE name = "Infinity" ->
         IF k = "Float" THEN <<127, 128, 0, 0>> ELSE <<127, 240, 0, 0, 0, 0, 0, 0>>
    [] name = "-Infinity" ->
         IF k = "Float" THEN <<255, 128, 0, 0>> ELSE <<255, 240, 0, 0, 0, 0, 0, 0>>
    [] name = "NaN" ->
         IF k = "Float" THEN <<127, 192, 0, 0>> ELSE <<127, 248, 0, 0, 0, 0, 0, 0>>

\* The step is a call of the JSON encoder that writes a special value.
WritesSpecial(k) ==
  /\ lastOp' = Op("json", "encode", k)
  /\ enc'.err = ""
  /\ Len(encLog') = Len(encLog) + 1
  /\ SpecialName(encLog'[Len(encLog')].val) # "none"

(***************************************************************************)
(* C24.  The JSON encoder writes the floats and doubles NaN, +Infinity and *)
(* -Infinity as the strings "NaN", "Infinity" and "-Infinity", and         *)
(* decodeFloat and decodeDouble of the JSON decoder take each of these     *)
(* strings and return the value it stands for.                             *)
(***************************************************************************)
SpecialValuesAsStrings ==
  [][\A k \in {"Float", "Double"} :
       /\ WritesSpecial(k) =>
            /\ Len(enc'.out) > Len(enc.out)
            /\ enc'.out[Len(enc'.out)].tok = "string"
            /\ enc'.out[Len(enc'.out)].val = SpecialName(encLog'[Len(encLog')].val)
       /\ (/\ DecodesToken(k, "string")
           /\ TokenMet(k).val \in {"NaN", "Infinity", "-Infinity"}) =>
            (dec'.err = "" /\ dec'.val = SpecialValue(k, TokenMet(k).val))
    ]_vars

\* The float NaN was written by the encoder as the string "NaN" and read
\* back from it as the float NaN.
SpecialValuesWitness ==
  /\ schema = Prim("float")
  /\ Len(enc.out) = 1 /\ enc.out[1].tok = "string" /\ enc.out[1].val = "NaN"
  /\ Len(dec.input) = 1 /\ dec.input[1].tok = "string" /\ dec.input[1].val = "NaN"
  /\ lastOp = Op("jsonDecoder", "decode", "Float")
  /\ dec.err = "" /\ dec.val = <<127, 192, 0, 0>>

\* The tokens of the text of one datum of schema n: the kind of each, and
\* for the name of a field the name.
RECURSIVE TextShape(_)

Wanted(t, name, leaf) == [tok |-> t, name |-> name, leaf |-> leaf]

RECURSIVE FieldShapes(_, _)
FieldShapes(n, i) ==
  IF i > Len(n.leaves) THEN <<>>
  ELSE <<Wanted("string", n.names[i], FALSE)>> \o TextShape(n.leaves[i])
         \o FieldShapes(n, i + 1)

TextShape(n) ==
  IF n.type = "record"
  THEN <<Wanted("objectStart", "", FALSE)>> \o FieldShapes(n, 1)
         \o <<Wanted("objectEnd", "", FALSE)>>
  ELSE <<Wanted(tokenOf(KindOfType(n.type)), "", TRUE)>>

\* Token i of the input is what the text of a sequence of datums has there.
Fits(i) ==
  LET shape == TextShape(schema)
      want == shape[((i - 1) % Len(shape)) + 1]
      got == dec.input[i]
  IN IF want.leaf
     THEN got.tok = want.tok \/ (want.tok = "double" /\ got.tok = "string")
     ELSE got.tok = want.tok /\ (want.tok = "string" => got.val = want.name)

(***************************************************************************)
(* C25.  The JSON decoder takes a token only where the grammar has it: at  *)
(* RecordStart an object-start, at RecordEnd an object-end, at Field(name) *)
(* a string equal to name.  Every token taken before the last one is the   *)
(* one wanted, the last one too unless the decoder has failed, and a       *)
(* decoder that failed on a token has not gone beyond it.                  *)
(***************************************************************************)
FieldTokensChecked ==
  (phase = "dec" /\ dec.handler = "jsonDecoder") =>
    /\ \A i \in 1..(dec.pos - 1) : Fits(i)
    /\ (dec.err = "" /\ dec.pos >= 1) => Fits(dec.pos)
    /\ dec.err = "IncorrectField" => ~Fits(dec.pos)

\* The text of a record with its second field named g: the first field has
\* been read, and the call for the second has failed on the name.
FieldTokensWitness ==
  /\ schema = RecID
  /\ dec.err = "IncorrectField"
  /\ dec.pos = 4 /\ dec.input[4].tok = "string" /\ dec.input[4].val = "g"
  /\ Len(decLog) = 1

(***************************************************************************)
(* The lifetime of the target of a symbolic node.  The nodes are owned by  *)
(* the NodePtr (shared pointers) that clients hold; a symbolic node holds  *)
(* a weak pointer in actualNode_.  schema is the heap: for each node the   *)
(* number of NodePtr that own it, a node owned by none being destroyed;    *)
(* reader is the symbolic node.                                            *)
(***************************************************************************)
MaxOwners == 3

NodeIds == {"A", "B"}

NodeSymbolic(name, n) == [type |-> "symbolic", name |-> name, actualNode_ |-> n]

\* std::weak_ptr::lock(): the node, or null when there is none or it has
\* been destroyed.
lock(heap, w) == IF w = "null" THEN "null" ELSE IF heap[w] = 0 THEN "null" ELSE w

\* A bug: the pointer is followed without asking whether the node is there.
NodeSymbolic_getNodeUnchecked(heap, n) == n.actualNode_

\* NodeSymbolic::getNode(): throw Exception("Could not follow symbol")
NodeSymbolic_getNode(heap, n) ==
  IF lock(heap, n.actualNode_) = "null" THEN "DanglingSymbol" ELSE lock(heap, n.actualNode_)

\* NodeSymbolic::isSet()
NodeSymbolic_isSet(heap, n) == lock(heap, n.actualNode_) # "null"

InitW ==
  /\ schema = [id \in NodeIds |-> 1]
  /\ reader \in {NodeSymbolic(name, "null") : name \in NodeIds}
  /\ enc = NoDecoder
  /\ dec = NoDecoder
  /\ phase = "node"
  /\ encLog = <<>>
  /\ decLog = <<>>
  /\ lastOp = NoOp

\* A client copies a NodePtr that it holds.
CopyNodePtr ==
  \E id \in NodeIds :
    /\ schema[id] > 0 /\ schema[id] < MaxOwners
    /\ schema' = [schema EXCEPT ![id] = @ + 1]
    /\ lastOp' = Op("client", "copy", id)
    /\ UNCHANGED <<reader, enc, dec, phase, encLog, decLog>>

\* A client lets go of a NodePtr; the node dies with the last one.
DropNodePtr ==
  \E id \in NodeIds :
    /\ schema[id] > 0
    /\ schema' = [schema EXCEPT ![id] = @ - 1]
    /\ lastOp' = Op("client", "drop", id)
    /\ UNCHANGED <<reader, enc, dec, phase, encLog, decLog>>

\* NodeSymbolic::setNode(node), with a NodePtr the client holds.
SetNode ==
  \E id \in NodeIds :
    /\ schema[id] > 0
    /\ reader' = [reader EXCEPT !.actualNode_ = id]
    /\ lastOp' = Op("symbolic", "setNode", id)
    /\ UNCHANGED <<schema, enc, dec, phase, encLog, decLog>>

\* The client calls getNode() and keeps the NodePtr returned, if one is.
GetNode ==
  /\ NodeSymbolic_getNode(schema, reader) \in NodeIds =>
       schema[NodeSymbolic_getNode(schema, reader)] < MaxOwners
  /\ lastOp' = Op("symbolic", "getNode", NodeSymbolic_getNode(schema, reader))
  /\ schema' = IF NodeSymbolic_getNode(schema, reader) \in NodeIds
               THEN [schema EXCEPT ![NodeSymbolic_getNode(schema, reader)] = @ + 1]
               ELSE schema
  /\ UNCHANGED <<reader, enc, dec, phase, encLog, decLog>>

\* The client calls isSet().
IsSet ==
  /\ lastOp' = Op("symbolic", "isSet", IF NodeSymbolic_isSet(schema, reader) THEN "true" ELSE "false")
  /\ UNCHANGED <<schema, reader, enc, dec, phase, encLog, decLog>>

NextW == CopyNodePtr \/ DropNodePtr \/ SetNode \/ GetNode \/ IsSet

SpecW == InitW /\ [][NextW]_vars

\* The symbolic node was given a target, and the target has been destroyed.
TargetDestroyed == reader.actualNode_ # "null" /\ schema[reader.actualNode_] = 0

(***************************************************************************)
(* C26.  getNode() on a symbolic node whose target has been destroyed      *)
(* fails with DanglingSymbol: it returns no node, and no node comes back   *)
(* to life.                                                                *)
(***************************************************************************)
DanglingSymbolFails ==
  [][(lastOp'.name = "getNode" /\ TargetDestroyed) =>
       (lastOp'.kind = "DanglingSymbol" /\ schema' = schema)]_vars

\* getNode() has failed on a symbolic node whose target was set and then
\* destroyed.
DanglingSymbolWitness ==
  /\ lastOp = Op("symbolic", "getNode", "DanglingSymbol")
  /\ TargetDestroyed

(***************************************************************************)
(* Input streams.  schema is the source (which implementation, the bytes,  *)
(* the chunk or buffer size), dec is the stream object, decLog the calls   *)
(* made on it.  The bytes of a source are 1, 2, .. so that each is known   *)
(* by its place.                                                           *)
(***************************************************************************)
MaxBytes == 4

MaxChunk == 2

MaxSkip == 3

Smaller(a, b) == IF a < b THEN a ELSE b

\* The bytes first..last of the source, in a chunk of chunkSize bytes of
\* which those beyond last were never written.
chunkOf(first, last, chunkSize) ==
  [j \in 1..chunkSize |-> IF first + j - 1 <= last THEN first + j - 1 ELSE 0]

\* MemoryOutputStream after len bytes were written to it; with spare, the
\* last chunk was obtained with next() and given back whole with backup(),
\* which happens when the chunks before it are full.
MemoryOutputStream(chunkSize, len, spare) ==
  [m_chunk_size |-> chunkSize,
   m_data |-> [k \in 1..(((len + chunkSize - 1) \div chunkSize) + (IF spare THEN 1 ELSE 0)) |->
                 chunkOf((k - 1) * chunkSize + 1, len, chunkSize)],
   m_available |-> IF spare THEN chunkSize
                   ELSE (((len + chunkSize - 1) \div chunkSize) * chunkSize) - len,
   m_byte_count |-> len]

MemoryInputStream(b, chunkSize, available) ==
  [impl |-> "MemoryInputStream", m_data |-> b, m_chunk_size |-> chunkSize,
   m_size |-> Len(b), m_available |-> available, m_cur |-> 0, m_cur_len |-> 0,
   n |-> 0, ok |-> TRUE, data |-> <<>>, err |-> ""]

chunkLen(s, cur) == IF cur = s.m_size - 1 THEN s.m_available ELSE s.m_chunk_size

\* MemoryInputStream::maxLen(); the value returned is in n.
maxLen(s) ==
  IF chunkLen(s, s.m_cur) = s.m_cur_len
  THEN IF s.m_cur = s.m_size - 1
       THEN [s EXCEPT !.n = 0]
       ELSE [s EXCEPT !.m_cur = @ + 1, !.m_cur_len = 0, !.n = chunkLen(s, s.m_cur + 1)]
  ELSE [s EXCEPT !.n = chunkLen(s, s.m_cur)]

chunkTaken(t) ==
  IF t.n # 0
  THEN [t EXCEPT !.ok = TRUE, !.data = SubSeq(t.m_data[t.m_cur + 1], t.m_cur_len + 1, t.n),
                 !.m_cur_len = t.n]
  ELSE [t EXCEPT !.ok = FALSE, !.data = <<>>]

MemoryInputStream_next(s) == chunkTaken(maxLen(s))

\* A bug: backup does nothing.
MemoryInputStream_backupNothing(s, len) == s

MemoryInputStream_backup(s, len) == [s EXCEPT !.m_cur_len = @ - len]

RECURSIVE MemoryInputStream_skip(_, _)
skipInChunk(t, len, upTo) ==
  MemoryInputStream_skip([t EXCEPT !.m_cur_len = upTo], len - (upTo - t.m_cur_len))

skipStep(t, len) ==
  IF t.n = 0 THEN t
  ELSE skipInChunk(t, len, IF t.m_cur_len + len < t.n THEN t.m_cur_len + len ELSE t.n)

MemoryInputStream_skip(s, len) == IF len > 0 THEN skipStep(maxLen(s), len) ELSE s

MemoryInputStream_byteCount(s) == s.m_cur * s.m_chunk_size + s.m_cur_len

MemoryInputStream2(bytes, len) ==
  [impl |-> "MemoryInputStream2", m_data |-> bytes, m_size |-> len, m_cur_len |-> 0,
   ok |-> TRUE, data |-> <<>>, err |-> ""]

\* A bug: a chunk is returned when none is left.
MemoryInputStream2_nextAlways(s) ==
  [s EXCEPT !.ok = TRUE, !.data = SubSeq(s.m_data, s.m_cur_len + 1, s.m_size),
            !.m_cur_len = s.m_size]

MemoryInputStream2_next(s) ==
  IF s.m_cur_len = s.m_size THEN [s EXCEPT !.ok = FALSE, !.data = <<>>]
  ELSE [s EXCEPT !.ok = TRUE, !.data = SubSeq(s.m_data, s.m_cur_len + 1, s.m_size),
                 !.m_cur_len = s.m_size]

MemoryInputStream2_backup(s, len) == [s EXCEPT !.m_cur_len = @ - len]

MemoryInputStream2_skip(s, len) ==
  [s EXCEPT !.m_cur_len = @ + Smaller(len, s.m_size - s.m_cur_len)]

MemoryInputStream2_byteCount(s) == s.m_cur_len

\* memoryInputStream(const OutputStream&)
memoryInputStream(mos) ==
  IF mos.m_data = <<>> THEN MemoryInputStream2(<<>>, 0)
  ELSE MemoryInputStream(mos.m_data, mos.m_chunk_size, mos.m_chunk_size - mos.m_available)

\* A file or a std::istream that BufferCopyIn reads: its bytes, the place of
\* the next read, and for an istream whether it has failed.
BufferCopyIn(kind, bytes) == [kind |-> kind, bytes |-> bytes, pos |-> 0, failed |-> FALSE]

left(in) == IF in.pos < Len(in.bytes) THEN Len(in.bytes) - in.pos ELSE 0

\* The numbers of bytes that read(b, toRead, actual) may give, 0 standing
\* for a read that returns false: ::read may give fewer than are there; an
\* istream gives all that are there, and none once it has failed.
readCounts(in, toRead) ==
  IF in.kind = "file"
  THEN (IF left(in) = 0 THEN {0} ELSE 1..Smaller(toRead, left(in)))
  ELSE {IF in.failed THEN 0 ELSE Smaller(toRead, left(in))}

\* FileBufferCopyIn::read, IStreamBufferCopyIn::read, having read actual
\* bytes: an istream that came to its end has eofbit and failbit set.
BufferCopyIn_read(in, toRead, actual) ==
  [in EXCEPT !.pos = @ + actual,
             !.failed = @ \/ (in.kind = "istream" /\ actual < toRead)]

\* What seek(len) may come to: lseek goes beyond the end of a file; seekg
\* fails on a failed istream, and beyond the end it fails or not as the
\* stream buffer has it.
seekOutcomes(in, len) ==
  IF in.kind = "file" THEN {"sought"}
  ELSE IF in.failed THEN {"CannotSkip"}
  ELSE IF in.pos + len > Len(in.bytes) THEN {"sought", "CannotSkip"}
  ELSE {"sought"}

BufferCopyInInputStream(in, bufferSize) ==
  [impl |-> "BufferCopyInInputStream", bufferSize_ |-> bufferSize, buffer_ |-> <<>>,
   in_ |-> in, byteCount_ |-> 0, next_ |-> 0, available_ |-> 0,
   ok |-> TRUE, data |-> <<>>, err |-> ""]

\* BufferCopyInInputStream::fill(), the read giving actual bytes
fill(s, actual) ==
  IF actual > 0
  THEN [s EXCEPT !.in_ = BufferCopyIn_read(s.in_, s.bufferSize_, actual),
                 !.buffer_ = SubSeq(s.in_.bytes, s.in_.pos + 1, s.in_.pos + actual),
                 !.next_ = 0, !.available_ = actual, !.ok = TRUE]
  ELSE [s EXCEPT !.in_ = BufferCopyIn_read(s.in_, s.bufferSize_, actual), !.ok = FALSE]

bufferTaken(t) ==
  IF ~t.ok THEN [t EXCEPT !.data = <<>>]
  ELSE [t EXCEPT !.data = SubSeq(t.buffer_, t.next_ + 1, t.next_ + t.available_),
                 !.next_ = @ + t.available_, !.byteCount_ = @ + t.available_,
                 !.available_ = 0]

BufferCopyInInputStream_next(s, actual) ==
  bufferTaken(IF s.available_ = 0 THEN fill(s, actual) ELSE [s EXCEPT !.ok = TRUE])

BufferCopyInInputStream_backup(s, len) ==
  [s EXCEPT !.next_ = @ - len, !.available_ = @ + len, !.byteCount_ = @ - len]

\* in_->seek(len); byteCount_ += len; return;
sought(s, len, outcome) ==
  IF outcome = "CannotSkip" THEN [s EXCEPT !.err = "CannotSkip"]
  ELSE [s EXCEPT !.in_.pos = @ + len, !.byteCount_ = @ + len]

RECURSIVE BufferCopyInInputStream_skip(_, _, _)
skipBuffered(s, len, outcome, m) ==
  BufferCopyInInputStream_skip(
    [s EXCEPT !.available_ = @ - m, !.next_ = @ + m, !.byteCount_ = @ + m], len - m, outcome)

BufferCopyInInputStream_skip(s, len, outcome) ==
  IF len = 0 THEN s
  ELSE IF s.available_ = 0 THEN sought(s, len, outcome)
  ELSE skipBuffered(s, len, outcome, Smaller(s.available_, len))

BufferCopyInInputStream_byteCount(s) == s.byteCount_

\* InputStream::next, backup, skip, byteCount
InputStream_next(s, actual) ==
  CASE s.impl = "MemoryInputStream" -> MemoryInputStream_next(s)
    [] s.impl = "MemoryInputStream2" -> MemoryInputStream2_next(s)
    [] s.impl = "BufferCopyInInputStream" -> BufferCopyInInputStream_next(s, actual)

InputStream_backup(s, len) ==
  CASE s.impl = "MemoryInputStream" -> MemoryInputStream_backup(s, len)
    [] s.impl = "MemoryInputStream2" -> MemoryInputStream2_backup(s, len)
    [] s.impl = "BufferCopyInInputStream" -> BufferCopyInInputStream_backup(s, len)

InputStream_skip(s, len, outcome) ==
  CASE s.impl = "MemoryInputStream" -> MemoryInputStream_skip(s, len)
    [] s.impl = "MemoryInputStream2" -> MemoryInputStream2_skip(s, len)
    [] s.impl = "BufferCopyInInputStream" -> BufferCopyInInputStream_skip(s, len, outcome)

InputStream_byteCount(s) ==
  CASE s.impl = "MemoryInputStream" -> MemoryInputStream_byteCount(s)
    [] s.impl = "MemoryInputStream2" -> MemoryInputStream2_byteCount(s)
    [] s.impl = "BufferCopyInInputStream" -> BufferCopyInInputStream_byteCount(s)

Bytes(len) == [i \in 1..len |-> i]

StreamSource(how, len, size, spare) == [how |-> how, len |-> len, size |-> size, spare |-> spare]

StreamSources ==
  {StreamSource(how, len, size, spare) :
     how \in {"memory", "bytes", "file", "istream"}, len \in 0..MaxBytes,
     size \in 1..MaxChunk, spare \in BOOLEAN}

\* memoryInputStream(os), memoryInputStream(data, len), fileInputStream,
\* istreamInputStream
InputStreamOn(source) ==
  CASE source.how = "memory" ->
         memoryInputStream(MemoryOutputStream(source.size, source.len, source.spare))
    [] source.how = "bytes" -> MemoryInputStream2(Bytes(source.len), source.len)
    [] OTHER -> BufferCopyInInputStream(BufferCopyIn(source.how, Bytes(source.len)),
                                        source.size)

InitS ==
  /\ schema \in {x \in StreamSources :
                   x.spare => (x.how = "memory" /\ x.len % x.size = 0)}
  /\ reader = schema
  /\ enc = NoDecoder
  /\ dec = InputStreamOn(schema)
  /\ phase = "stream"
  /\ encLog = <<>>
  /\ decLog = <<>>
  /\ lastOp = NoOp

StreamReady == phase = "stream" /\ dec.err = "" /\ Len(decLog) < MaxCalls

\* A call on the stream: len is the bytes asked for, or returned by next;
\* undo is how many bytes backup may still give back.
StreamCall(name, len, undo) == [name |-> name, len |-> len, undo |-> undo]

undoLeft == IF decLog = <<>> THEN 0 ELSE decLog[Len(decLog)].undo

\* The client calls next(&data, &len).
StreamNext ==
  /\ StreamReady
  /\ \E actual \in (IF dec.impl = "BufferCopyInInputStream"
                    THEN readCounts(dec.in_, dec.bufferSize_) ELSE {0}) :
       /\ dec' = InputStream_next(dec, actual)
       /\ decLog' = Append(decLog, StreamCall(IF dec'.ok THEN "next" ELSE "end",
                                              Len(dec'.data), Len(dec'.data)))
  /\ lastOp' = Op("stream", "next", "none")
  /\ UNCHANGED <<schema, reader, enc, phase, encLog>>

\* The client calls backup(len), giving back bytes of the chunk that the
\* last next() returned.
StreamBackup ==
  /\ StreamReady
  /\ \E len \in 1..undoLeft :
       /\ dec' = InputStream_backup(dec, len)
       /\ decLog' = Append(decLog, StreamCall("backup", len, undoLeft - len))
  /\ lastOp' = Op("stream", "backup", "none")
  /\ UNCHANGED <<schema, reader, enc, phase, encLog>>

\* The seek that skip(len) comes to, if it comes to one.
seekOf(s, len) ==
  IF s.impl = "BufferCopyInInputStream" /\ len > s.available_
  THEN seekOutcomes(s.in_, len - s.available_) ELSE {"sought"}

\* The client calls skip(len).
StreamSkip ==
  /\ StreamReady
  /\ \E len \in 0..MaxSkip : \E outcome \in seekOf(dec, len) :
       /\ dec' = InputStream_skip(dec, len, outcome)
       /\ decLog' = Append(decLog, StreamCall("skip", len, 0))
  /\ lastOp' = Op("stream", "skip", "none")
  /\ UNCHANGED <<schema, reader, enc, phase, encLog>>

NextS == StreamNext \/ StreamBackup \/ StreamSkip

SpecS == InitS /\ [][NextS]_vars

\* Where in the source the stream stands after the first i calls: a chunk
\* returned moves it on by its length, a backup back, a skip on by the
\* bytes asked for or by those that were left.
RECURSIVE Consumed(_)
movedBy(call, from) ==
  CASE call.name = "next" -> from + call.len
    [] call.name = "end" -> from
    [] call.name = "backup" -> from - call.len
    [] call.name = "skip" -> from + Smaller(call.len, schema.len - from)

Consumed(i) == IF i = 0 THEN 0 ELSE movedBy(decLog[i], Consumed(i - 1))

LastCall == decLog[Len(decLog)]

StreamCalled(name) ==
  phase = "stream" /\ dec.err = "" /\ decLog # <<>> /\ LastCall.name = name

(***************************************************************************)
(* C27.  The chunk that next() returns starts where the stream stands:     *)
(* after backup(n) at the last n bytes of the chunk returned before, which *)
(* it holds all, after skip(n) n bytes further on; and next() returns      *)
(* false only at the end of the source.  No byte is delivered twice or     *)
(* lost otherwise.                                                         *)
(***************************************************************************)
ChunksInOrder ==
  /\ StreamCalled("next") =>
       /\ dec.data = SubSeq(Bytes(schema.len), Consumed(Len(decLog) - 1) + 1,
                            Consumed(Len(decLog)))
       /\ (Len(decLog) > 1 /\ decLog[Len(decLog) - 1].name = "backup") =>
            Len(dec.data) >= decLog[Len(decLog) - 1].len
  /\ StreamCalled("end") => Consumed(Len(decLog)) = schema.len

\* The chunked memory stream returned a chunk of two bytes, one was backed
\* up and one more skipped, and the next chunk starts at the third byte.
ChunksInOrderWitness ==
  /\ dec.impl = "MemoryInputStream"
  /\ Len(decLog) = 4
  /\ decLog[1] = StreamCall("next", 2, 2)
  /\ decLog[2] = StreamCall("backup", 1, 1)
  /\ decLog[3] = StreamCall("skip", 2, 0)
  /\ decLog[4].name = "next" /\ dec.data[1] = 4

(***************************************************************************)
(* C28.  byteCount() of every input stream, after any calls of next,       *)
(* backup and skip, is the bytes returned by next plus the bytes skipped   *)
(* minus the bytes backed up.                                              *)
(***************************************************************************)
ByteCountConsumed ==
  (phase = "stream" /\ dec.err = "") => InputStream_byteCount(dec) = Consumed(Len(decLog))

\* The same of the two memory streams.
MemoryByteCountConsumed ==
  (phase = "stream" /\ dec.impl # "BufferCopyInInputStream") =>
    InputStream_byteCount(dec) = Consumed(Len(decLog))

MaxArrayCalls == 6

ArraySchemas ==
  {ArrayNode(Prim("int")), ArrayNode(Prim("string")), MapNode(Prim("int")),
   MapNode(Prim("string"))}

InitA ==
  /\ schema \in ArraySchemas
  /\ reader = schema
  /\ enc = ValidatingEncoder(schema)
  /\ dec = NoDecoder
  /\ phase = "enc"
  /\ encLog = <<>>
  /\ decLog = <<>>
  /\ lastOp = NoOp

\* The client calls an operation of the encoder, which leaves it as e.
ArrayCall(name, e, v) ==
  /\ phase = "enc" /\ enc.err = "" /\ Len(encLog) < MaxArrayCalls
  /\ enc' = e
  /\ encLog' = Logged(encLog, enc', name, v)
  /\ lastOp' = Op("enc", name, "none")
  /\ UNCHANGED <<schema, reader, dec, phase, decLog>>

ItemInt == ArrayCall("Int", ValidatingEncoder_encode(enc, "Int", 64), 64)

ItemString ==
  ArrayCall("String", ValidatingEncoder_encode(enc, "String", <<120, 121>>), <<120, 121>>)

ArrayStart == ArrayCall("arrayStart", ValidatingEncoder_arrayStart(enc), 0)

ArrayEnd == ArrayCall("arrayEnd", ValidatingEncoder_arrayEnd(enc), 0)

MapStart == ArrayCall("mapStart", ValidatingEncoder_mapStart(enc), 0)

MapEnd == ArrayCall("mapEnd", ValidatingEncoder_mapEnd(enc), 0)

SetItemCount ==
  \E n \in ItemCounts : ArrayCall("setItemCount", ValidatingEncoder_setItemCount(enc, n), n)

StartItem == ArrayCall("startItem", ValidatingEncoder_startItem(enc), 0)

NextA ==
  \/ ItemInt \/ ItemString \/ ArrayStart \/ ArrayEnd \/ MapStart \/ MapEnd
  \/ SetItemCount \/ StartItem

SpecA == InitA /\ [][NextA]_vars

\* The place in the log of the last call of one of the names, 0 if none.
LastOf(log, names) == Greatest({i \in 1..Len(log) : log[i].kind \in names})

\* The count set by the last setItemCount of the array or map being
\* written, 0 if none was called.
CountSet ==
  IF LastOf(encLog, {"setItemCount"}) > LastOf(encLog, {"arrayStart", "mapStart"})
  THEN encLog[LastOf(encLog, {"setItemCount"})].val ELSE 0

\* The calls of the names made since the last setItemCount, or since the
\* array or map was started.
CallsSince(names) ==
  Cardinality({i \in 1..Len(encLog) :
                 /\ i > LastOf(encLog, {"setItemCount", "arrayStart", "mapStart"})
                 /\ encLog[i].kind \in names})

\* The leaf calls that write one item: the value, and in a map its key.
ItemCalls == IF schema.type = "map" THEN 2 ELSE 1

\* An array or a map has been started and not ended.
Started ==
  LastOf(encLog, {"arrayStart", "mapStart"}) > LastOf(encLog, {"arrayEnd", "mapEnd"})

\* The step is a call of arrayEnd on an array, or of mapEnd on a map, that
\* has been started.
Ends ==
  /\ Started
  /\ lastOp'.name = (IF schema.type = "map" THEN "mapEnd" ELSE "arrayEnd")

\* C30 as it was stated: arrayEnd and mapEnd succeed only if startItem was
\* called as many times since the last setItemCount as the count set.
EndCountsStartItems ==
  [][(Ends /\ enc'.err = "") => CallsSince({"startItem"}) = CountSet]_vars

(***************************************************************************)
(* C30.  The encoder's arrayEnd and mapEnd succeed only if as many items   *)
(* were written since the last setItemCount as the count set, which is     *)
(* when the count of the repeater is zero; otherwise they fail.  The calls *)
(* of startItem are not counted.                                           *)
(***************************************************************************)
EndCountsItems ==
  [][Ends => (enc'.err = "" <=> CallsSince(LeafKinds) = CountSet * ItemCalls)]_vars

\* arrayEnd has failed after setItemCount(2) and one item.
EndCountsItemsWitness ==
  /\ lastOp = Op("enc", "arrayEnd", "none")
  /\ enc.err # ""
  /\ CountSet = 2
  /\ CallsSince(LeafKinds) = 1

\* mapEnd has succeeded after setItemCount(1), a key and a value.
MapEndWitness ==
  /\ lastOp = Op("enc", "mapEnd", "none")
  /\ enc.err = ""
  /\ encLog[Len(encLog)].kind = "mapEnd"
  /\ Len(encLog) >= 5

(***************************************************************************)
(* Fixed values written with the validating encoder and read back with the *)
(* validating decoder.                                                     *)
(***************************************************************************)
MaxFixed == 3

RecIF2 ==
  RecordNode("r", <<Prim("int"), FixedNode("f", 2)>>, <<"a", "b">>, NoDefaults(2))

FixedSchemas == {FixedNode("f", n) : n \in 1..MaxFixed} \cup {RecIF2}

\* The values of n bytes that a client writes.
FixedValues == {[i \in 1..n |-> 16 * n + i] : n \in 0..MaxFixed}

InitF ==
  /\ schema \in FixedSchemas
  /\ reader = schema
  /\ enc = ValidatingEncoder(schema)
  /\ dec = NoDecoder
  /\ phase = "enc"
  /\ encLog = <<>>
  /\ decLog = <<>>
  /\ lastOp = NoOp

\* The client calls encodeFixed(bytes, len).
EncodeFixed ==
  \E bytes \in FixedValues :
    /\ EncReady
    /\ enc' = ValidatingEncoder_encodeFixed(enc, bytes)
    /\ encLog' = Logged(encLog, enc', "Fixed", bytes)
    /\ lastOp' = Op("enc", "encodeFixed", Len(bytes))
    /\ UNCHANGED <<schema, reader, dec, phase, decLog>>

\* The client calls decodeFixed(n, value).
DecodeFixed ==
  \E n \in 0..MaxFixed :
    /\ DecReady
    /\ dec' = ValidatingDecoder_decodeFixed(dec, n)
    /\ decLog' = Logged(decLog, dec', "Fixed", dec'.val)
    /\ lastOp' = Op("dec", "decodeFixed", n)
    /\ UNCHANGED <<schema, reader, enc, phase, encLog>>

NextF == EncodeFixed \/ EncodeInt \/ Flush \/ DecodeFixed \/ DecodeInt

SpecF == InitF /\ [][NextF]_vars

\* The size of the fixed of the schema.
FixedSize == IF schema.type = "fixed" THEN schema.size ELSE schema.leaves[2].size

(***************************************************************************)
(* C31.  encodeFixed and decodeFixed with a length n succeed only when the *)
(* size of the schema's fixed is n, and then write and return the n bytes; *)
(* with another n they fail, the encoder having written nothing and the    *)
(* decoder having read nothing.                                            *)
(***************************************************************************)
FixedSizeChecked ==
  [][/\ lastOp'.name = "encodeFixed" =>
          IF lastOp'.kind = FixedSize /\ advance(enc, "Fixed").err = ""
          THEN enc'.err = "" /\ Len(enc'.out) = Len(enc.out) + FixedSize
          ELSE enc'.err # "" /\ enc'.out = enc.out
     /\ lastOp'.name = "decodeFixed" =>
          /\ dec'.err = "" =>
               /\ lastOp'.kind = FixedSize
               /\ dec'.val = SubSeq(dec.input, dec.pos + 1, dec.pos + FixedSize)
               /\ dec'.pos = dec.pos + FixedSize
          /\ lastOp'.kind # FixedSize =>
               (dec'.err # "" /\ dec'.pos = dec.pos /\ dec'.val = dec.val)
    ]_vars

\* A fixed of two bytes was written and read back, and a decoder asked for
\* three bytes of it has failed.
FixedSizeWitness ==
  /\ schema = FixedNode("f", 2)
  /\ lastOp.name = "decodeFixed" /\ lastOp.kind = 3
  /\ dec.err = "SizeMismatch"
  /\ Len(dec.input) = 4 /\ dec.pos = 2

(***************************************************************************)
(* GenericDatum and GenericRecord.  schema is the root of the schema, dec  *)
(* the datum that the client constructed from it and works on.             *)
(***************************************************************************)
\* The C++ type that boost::any holds for a datum of an Avro type; a null
\* datum holds nothing.
CppType(t) ==
  CASE t = "null" -> "empty"
    [] t = "boolean" -> "bool"
    [] t = "int" -> "int32_t"
    [] t = "long" -> "int64_t"
    [] t = "float" -> "float"
    [] t = "double" -> "double"
    [] t = "string" -> "std::string"
    [] t = "bytes" -> "std::vector<uint8_t>"
    [] t = "record" -> "GenericRecord"

\* bool(), int32_t(), .. vector<uint8_t>()
ValueInitialized(t) ==
  CASE t = "null" -> 0
    [] t = "boolean" -> FALSE
    [] t \in {"int", "long"} -> 0
    [] t = "float" -> <<0, 0, 0, 0>>
    [] t = "double" -> <<0, 0, 0, 0, 0, 0, 0, 0>>
    [] t \in {"string", "bytes"} -> <<>>

RECURSIVE GenericDatum_init(_, _)

\* GenericRecord::GenericRecord(schema); root is where symbolic nodes of the
\* schema are resolved.
GenericRecord(root, n) ==
  [schema_ |-> n, fields_ |-> [i \in 1..Len(n.leaves) |-> GenericDatum_init(root, n.leaves[i])]]

initialized(root, sc) ==
  IF sc.type = "record" THEN Datum("record", GenericRecord(root, sc))
  ELSE Datum(sc.type, ValueInitialized(sc.type))

\* GenericDatum::GenericDatum(const NodePtr&) with GenericDatum::init
GenericDatum_init(root, n) ==
  initialized(root, IF n.type = "symbolic" THEN resolveSymbolIn(root, n) ELSE n)

\* A bug: the datum takes the type of what is assigned to it.
GenericDatum_valueRetagged(d, t, v) == Datum(t, v)

\* value<T>() = v, T being the C++ type of the Avro type t: any_cast gives
\* the value held when it is a T, and nothing of the datum otherwise.
GenericDatum_value(d, t, v) ==
  IF CppType(d.type) = CppType(t) THEN [d EXCEPT !.value = v] ELSE d

\* any_cast<T>(&value_) is null for a value that is not a T, and value<T>()
\* then a reference to nothing: assigning to it crashes, or does nothing.
NullReferenceOutcomes == {"Crash", "Nothing"}

GenericRecord_fieldAt(r, pos) == r.fields_[pos + 1]

\* fields_[pos] = v
GenericRecord_setFieldAt(r, pos, v) == [r EXCEPT !.fields_[pos + 1] = v]

Inner == RecordNode("I", <<Prim("int")>>, <<"v">>, NoDefaults(1))

\* A record whose second field names the type of the first.
Twice ==
  RecordNode("O", <<Inner, SymbolicNode("I"), Prim("string")>>, <<"x", "y", "z">>,
             NoDefaults(3))

DatumSchemas ==
  {Prim(t) : t \in {"null", "boolean", "int", "long", "float", "double", "string", "bytes"}}
  \cup {RecIS, RecLBI, Inner, Twice}

\* The datums and values that a client has at hand, of every type.
ClientDatums ==
  <<Datum("null", 0), Datum("boolean", TRUE), Datum("int", 64), Datum("long", 3),
    Datum("float", <<63, 128, 0, 0>>), Datum("double", One), Datum("string", <<120, 121>>),
    Datum("bytes", <<255>>), GenericDatum_init(Inner, Inner)>>

InitD ==
  /\ schema \in DatumSchemas
  /\ reader = schema
  /\ enc = NoDecoder
  /\ dec = GenericDatum_init(schema, schema)
  /\ phase = "datum"
  /\ encLog = <<>>
  /\ decLog = <<>>
  /\ lastOp = NoOp

\* The datum d after value<T>() = v.value, T the type of what v holds.
Assigned(d, v) == GenericDatum_value(d, v.type, v.value)

\* The client assigns to datum.value<T>().
AssignValue ==
  /\ phase = "datum"
  /\ \E i \in 1..Len(ClientDatums) : \E outcome \in NullReferenceOutcomes :
       /\ dec' = Assigned(dec, ClientDatums[i])
       /\ phase' = IF /\ CppType(dec.type) # CppType(ClientDatums[i].type)
                      /\ outcome = "Crash"
                   THEN "crashed" ELSE "datum"
       /\ lastOp' = Op("datum", "value", ClientDatums[i].type)
  /\ UNCHANGED <<schema, reader, enc, encLog, decLog>>

\* The client assigns to datum.value<GenericRecord>().fieldAt(pos).value<T>().
AssignFieldValue ==
  /\ phase = "datum" /\ dec.type = "record"
  /\ \E pos \in 0..(Len(dec.value.fields_) - 1) : \E i \in 1..Len(ClientDatums) :
       \E outcome \in NullReferenceOutcomes :
         /\ dec' = [dec EXCEPT !.value.fields_[pos + 1] =
                      Assigned(GenericRecord_fieldAt(dec.value, pos), ClientDatums[i])]
         /\ phase' = IF /\ CppType(GenericRecord_fieldAt(dec.value, pos).type)
                             # CppType(ClientDatums[i].type)
                        /\ outcome = "Crash"
                     THEN "crashed" ELSE "datum"
         /\ lastOp' = Op("datum", "fieldValue", ClientDatums[i].type)
  /\ UNCHANGED <<schema, reader, enc, encLog, decLog>>

\* The client calls datum.value<GenericRecord>().setFieldAt(pos, v).
SetFieldAt ==
  /\ phase = "datum" /\ dec.type = "record"
  /\ \E pos \in 0..(Len(dec.value.fields_) - 1) : \E i \in 1..Len(ClientDatums) :
       dec' = [dec EXCEPT !.value = GenericRecord_setFieldAt(dec.value, pos, ClientDatums[i])]
  /\ lastOp' = Op("datum", "setFieldAt", "none")
  /\ UNCHANGED <<schema, reader, enc, phase, encLog, decLog>>

NextD == AssignValue \/ AssignFieldValue \/ SetFieldAt

SpecD == InitD /\ [][NextD]_vars

\* The type tags of a datum and, for a record, of its fields.
Tags(d) ==
  IF d.type = "record"
  THEN <<"record">> \o [i \in 1..Len(d.value.fields_) |-> d.value.fields_[i].type]
  ELSE <<d.type>>

(***************************************************************************)
(* C32.  Assigning through value<T>() changes the value that a datum       *)
(* holds and never the type tag of that datum, be it the datum of the      *)
(* client or a field of its record.                                        *)
(***************************************************************************)
TypeTagKept ==
  [][/\ lastOp'.name = "value" => dec'.type = dec.type
     /\ lastOp'.name = "fieldValue" => Tags(dec') = Tags(dec)]_vars

\* An int datum holds 64, assigned through value<int32_t>().
TypeTagKeptWitness ==
  /\ lastOp = Op("datum", "value", "int")
  /\ schema = Prim("int")
  /\ dec.type = "int" /\ dec.value = 64

\* The type of field i of the schema of a record, a symbolic node followed.
FieldType(r, i) ==
  IF r.schema_.leaves[i].type = "symbolic"
  THEN resolveSymbolIn(schema, r.schema_.leaves[i]).type
  ELSE r.schema_.leaves[i].type

(***************************************************************************)
(* C33.  A GenericRecord holds at all times one datum for each field of    *)
(* its schema, and the type tag of the datum of field i is the type of     *)
(* field i of the schema (the target's, for a symbolic node), after        *)
(* setFieldAt too.                                                         *)
(***************************************************************************)
FieldsMatchSchema ==
  dec.type = "record" =>
    /\ Len(dec.value.fields_) = Len(dec.value.schema_.leaves)
    /\ \A i \in 1..Len(dec.value.fields_) : dec.value.fields_[i].type = FieldType(dec.value, i)

(***************************************************************************)
(* The runs that use a resolving decoder again: at any point of a read,    *)
(* finished, half way (in the default values of the reader too) or failed, *)
(* the client calls init with the stream once more.                        *)
(***************************************************************************)
ReusePairs ==
  {<<WriterK, ReaderNKS>>, <<WriterNone, ReaderF>>, <<RecIS, RecIS>>, <<RecIS, ReaderBS>>,
   <<RecIS, ReaderSL>>}

InitE ==
  /\ \E p \in ReusePairs : schema = p[1] /\ reader = p[2]
  /\ enc = ValidatingEncoder(schema)
  /\ dec = NoDecoder
  /\ phase = "enc"
  /\ encLog = <<>>
  /\ decLog = <<>>
  /\ lastOp = NoOp

\* The client calls init(is) on the resolving decoder, is a stream over the
\* bytes written.
Reinit ==
  /\ phase = "dec"
  /\ dec' = ResolvingDecoder_init(dec, enc.out)
  /\ decLog' = <<>>
  /\ lastOp' = Op("dec", "init", IF dec.backup_ # "null" THEN "inDefault" ELSE "none")
  /\ UNCHANGED <<schema, reader, enc, phase, encLog>>

NextE ==
  \/ WriteDatum \/ Open \/ ReadDatum \/ FieldOrder \/ Reinit
  \/ ResolveNull \/ ResolveInt \/ ResolveDouble \/ ResolveString

SpecE == InitE /\ [][NextE]_vars

\* Two decoders have read the same: they failed alike, or returned the same
\* datum from the same bytes.
SameRead(a, b) ==
  /\ a.err = b.err
  /\ a.err = "" => (a.val = b.val /\ a.pos = b.pos /\ a.base_ = b.base_)

\* What a call on the decoder changes, but for the values returned.
decoderView == <<lastOp, phase, dec.base_, dec.backup_, dec.pos, dec.binPos, dec.err>>

(***************************************************************************)
(* C34.  After init(is) a resolving decoder is at the start of its grammar *)
(* with the original base decoder in use, and reads from is what a         *)
(* resolving decoder made for is reads, whatever it did before the call,   *)
(* the case that it was reading a default value included.                  *)
(***************************************************************************)
ReusedAsFresh ==
  [][lastOp'.name = "init" =>
       /\ dec'.base_ = "base" /\ dec'.backup_ = "null"
       /\ dec'.stack = ResolvingDecoder(schema, reader, enc.out).stack
       /\ dec'.input = enc.out /\ dec'.pos = 0
       /\ SameRead(GenericReader_read(dec', reader),
                   GenericReader_read(ResolvingDecoder(schema, reader, enc.out), reader))]_decoderView

\* init was called while a default value was being read, and the datum
\* written has been read after it.
ReusedAsFreshWitness ==
  /\ lastOp = Op("dec", "init", "inDefault")
  /\ Len(encLog) = 1
  /\ GenericReader_read(dec, reader).err = ""

(***************************************************************************)
(* Writer unions with a branch that the reader cannot read (SpecU).        *)
(***************************************************************************)
WriterUnionPair == <<schema, reader>> \in UnionWriterPairs

\* What the grammar holds for branch j of the writer's union.
WriterBranch(j) == doGenerate2(schema.leaves[j + 1], reader)

\* The branches that the datums written select.
SelectedBranches == {encLog[i].val : i \in {n \in 1..Len(encLog) : encLog[n].kind = "unionIndex"}}

\* The first datum written selects a branch that is the error symbol.
FirstBranchUnreadable ==
  /\ encLog # <<>>
  /\ encLog[1].kind = "unionIndex"
  /\ WriterBranch(encLog[1].val) = <<errorSymbol>>

(***************************************************************************)
(* C35.  A resolving decoder for a writer union is constructed without     *)
(* failure also when a branch of the union has nothing in the reader that  *)
(* can read it.  A decode fails as incompatible only if the data select    *)
(* such a branch, and the first decode call fails when the first datum     *)
(* does.                                                                   *)
(***************************************************************************)
UnionErrorAtDecode ==
  (WriterUnionPair /\ phase = "dec") =>
    /\ lastOp.name = "open" => dec.err = ""
    /\ dec.err = "SchemaIncompatible" =>
         \E j \in SelectedBranches : "Error" \in kindsOf(WriterBranch(j))
    /\ (FirstBranchUnreadable /\ lastOp.side = "dec" /\ lastOp.name # "open") =>
         dec.err = "SchemaIncompatible"

\* The writer wrote the string branch of [int, string] for a reader of int:
\* the decoder was made, and its first call failed.
UnionErrorAtDecodeWitness ==
  /\ schema = UnionNode(<<Prim("int"), Prim("string")>>) /\ reader = Prim("int")
  /\ FirstBranchUnreadable
  /\ lastOp.side = "dec" /\ lastOp.name # "open"
  /\ dec.err = "SchemaIncompatible"

\* The same writer and reader, the int branch written and read.
UnionReadableBranchWitness ==
  /\ schema = UnionNode(<<Prim("int"), Prim("string")>>) /\ reader = Prim("int")
  /\ SelectedBranches = {0}
  /\ dec.err = "" /\ Len(decLog) = 1 /\ decLog[1].kind = "Int"

(***************************************************************************)
(* The runs that read arrays and maps block by block: a client writes a    *)
(* record of an array (or a map) and a string through a validating         *)
(* encoder, in blocks of its choice, and reads it call by call through a   *)
(* validating or a resolving decoder.                                      *)
(***************************************************************************)
MaxBlockCalls == 5

RecArray ==
  RecordNode("r", <<ArrayNode(Prim("int")), Prim("string")>>, <<"a", "b">>, NoDefaults(2))

RecMap ==
  RecordNode("r", <<MapNode(Prim("int")), Prim("string")>>, <<"m", "b">>, NoDefaults(2))

BlockSchemas == {RecArray, RecMap}

InitK ==
  /\ schema \in BlockSchemas
  /\ reader = schema
  /\ enc = ValidatingEncoder(schema)
  /\ dec = NoDecoder
  /\ phase = "enc"
  /\ encLog = <<>>
  /\ decLog = <<>>
  /\ lastOp = NoOp

\* The client opens a resolving decoder, writer and reader the same schema,
\* over the bytes written.
OpenResolving ==
  /\ phase = "enc" /\ enc.err = ""
  /\ schema = RecArray
  /\ dec' = ResolvingDecoder(schema, reader, enc.out)
  /\ phase' = "dec"
  /\ lastOp' = Op("dec", "open", "none")
  /\ UNCHANGED <<schema, reader, enc, encLog, decLog>>

\* The client calls an operation of the decoder, which leaves it as d.
BlockCall(name, d) ==
  /\ phase = "dec" /\ dec.err = "" /\ Len(decLog) < MaxBlockCalls
  /\ dec' = d
  /\ decLog' = Logged(decLog, dec', name, dec'.val)
  /\ lastOp' = Op("dec", name, "none")
  /\ UNCHANGED <<schema, reader, enc, phase, encLog>>

BlockArrayStart ==
  BlockCall("arrayStart", IF isResolving(dec) THEN ResolvingDecoder_arrayStart(dec)
                          ELSE ValidatingDecoder_arrayStart(dec))

BlockArrayNext ==
  BlockCall("arrayNext", IF isResolving(dec) THEN ResolvingDecoder_arrayNext(dec)
                         ELSE ValidatingDecoder_arrayNext(dec))

BlockMapStart == ~isResolving(dec) /\ BlockCall("mapStart", ValidatingDecoder_mapStart(dec))

BlockMapNext == ~isResolving(dec) /\ BlockCall("mapNext", ValidatingDecoder_mapNext(dec))

BlockInt == BlockCall("Int", Decoder_decode(dec, "Int"))

BlockString == BlockCall("String", Decoder_decode(dec, "String"))

NextK ==
  \/ ItemInt \/ ItemString \/ ArrayStart \/ ArrayEnd \/ MapStart \/ MapEnd \/ SetItemCount
  \/ Flush \/ OpenResolving
  \/ BlockArrayStart \/ BlockArrayNext \/ BlockMapStart \/ BlockMapNext
  \/ BlockInt \/ BlockString

SpecK == InitK /\ [][NextK]_vars

BlockCalls == {"arrayStart", "arrayNext", "mapStart", "mapNext"}

\* The place in decLog of the last call that read a block count, 0 if none.
LastBlock == LastOf(decLog, BlockCalls)

\* The leaf calls that read one item: the value, and in a map its key.
BlockItemCalls == IF schema = RecMap THEN 2 ELSE 1

EmptyMapWitness ==
  /\ dec.err = "" /\ Len(decLog) = 2
  /\ decLog[1].kind = "mapStart" /\ decLog[1].val = 0
  /\ decLog[2].kind = "String"

(***************************************************************************)
(* Output streams.  schema is the kind of stream and its chunk or buffer   *)
(* size, enc the stream object, decLog the calls made on it and encLog the *)
(* bytes that the client has written and not given back.  The client       *)
(* fills what next() hands out with bytes that tell the call and the place *)
(* in it.                                                                  *)
(***************************************************************************)
MaxOutCalls == 5

\* memoryOutputStream(chunkSize); data and len are what next() returned:
\* the place in the last chunk, and the number of bytes.
memoryOutputStream(chunkSize) ==
  [impl |-> "MemoryOutputStream", m_chunk_size |-> chunkSize, m_data |-> <<>>,
   m_available |-> 0, m_byte_count |-> 0, data |-> 0, len |-> 0, thrown |-> FALSE]

\* A chunk as new[] leaves it.
newChunk(chunkSize) == [j \in 1..chunkSize |-> 0]

handedOut(s1) ==
  [s1 EXCEPT !.data = s1.m_chunk_size - s1.m_available, !.len = s1.m_available,
             !.m_byte_count = @ + s1.m_available, !.m_available = 0]

MemoryOutputStream_next(s) ==
  handedOut(IF s.m_available = 0
            THEN [s EXCEPT !.m_data = Append(@, newChunk(s.m_chunk_size)),
                           !.m_available = s.m_chunk_size]
            ELSE s)

\* A bug: the bytes given back are not taken off the count.
MemoryOutputStream_backupUncounted(s, len) == [s EXCEPT !.m_available = @ + len]

MemoryOutputStream_backup(s, len) ==
  [s EXCEPT !.m_available = @ + len, !.m_byte_count = @ - len]

MemoryOutputStream_byteCount(s) == s.m_byte_count

RECURSIVE snapshotFrom(_, _, _)
snapshotFrom(mos, k, c) ==
  IF k > Len(mos.m_data) THEN <<>>
  ELSE SubSeq(mos.m_data[k], 1, Smaller(c, mos.m_chunk_size))
         \o snapshotFrom(mos, k + 1, c - Smaller(c, mos.m_chunk_size))

\* snapshot(const OutputStream&)
snapshot(mos) == snapshotFrom(mos, 1, mos.m_byte_count)

\* BufferCopyOutputStream over a sink out_, the bytes that were written to
\* it; next_ is the place in buffer_.
BufferCopyOutputStream(bufferSize) ==
  [impl |-> "BufferCopyOutputStream", bufferSize_ |-> bufferSize,
   buffer_ |-> newChunk(bufferSize), out_ |-> <<>>, next_ |-> 0,
   available_ |-> bufferSize, byteCount_ |-> 0, data |-> 0, len |-> 0, thrown |-> FALSE]

\* A bug: flush leaves available_ as it is.
BufferCopyOutputStream_flushKeepAvailable(s, written) ==
  IF ~written THEN [s EXCEPT !.thrown = TRUE]
  ELSE [s EXCEPT !.out_ = @ \o SubSeq(s.buffer_, 1, s.bufferSize_ - s.available_),
                 !.next_ = 0, !.thrown = FALSE]

\* flush(); write throws when it is not written, and flush with it.
BufferCopyOutputStream_flush(s, written) ==
  IF ~written THEN [s EXCEPT !.thrown = TRUE]
  ELSE [s EXCEPT !.out_ = @ \o SubSeq(s.buffer_, 1, s.bufferSize_ - s.available_),
                 !.next_ = 0, !.available_ = s.bufferSize_, !.thrown = FALSE]

bufferHandedOut(s1) ==
  IF s1.thrown THEN s1
  ELSE [s1 EXCEPT !.data = s1.next_, !.len = s1.available_, !.next_ = @ + s1.available_,
                  !.byteCount_ = @ + s1.available_, !.available_ = 0]

BufferCopyOutputStream_next(s, written) ==
  bufferHandedOut(IF s.available_ = 0 THEN BufferCopyOutputStream_flush(s, written)
                  ELSE [s EXCEPT !.thrown = FALSE])

BufferCopyOutputStream_backup(s, len) ==
  [s EXCEPT !.available_ = @ + len, !.next_ = @ - len, !.byteCount_ = @ - len,
            !.thrown = FALSE]

BufferCopyOutputStream_byteCount(s) == s.byteCount_

isMemory(s) == s.impl = "MemoryOutputStream"

OutputStream_next(s, written) ==
  IF isMemory(s) THEN MemoryOutputStream_next(s) ELSE BufferCopyOutputStream_next(s, written)

OutputStream_backup(s, len) ==
  IF isMemory(s) THEN MemoryOutputStream_backup(s, len)
  ELSE BufferCopyOutputStream_backup(s, len)

OutputStream_flush(s, written) ==
  IF isMemory(s) THEN s ELSE BufferCopyOutputStream_flush(s, written)

OutputStream_byteCount(s) ==
  IF isMemory(s) THEN MemoryOutputStream_byteCount(s) ELSE BufferCopyOutputStream_byteCount(s)

\* The bytes that the client writes where call number c handed out len bytes.
ClientBytes(c, len) == [j \in 1..len |-> 10 * c + j]

\* The stream after the client has written bytes where next() pointed.
filled(s, bytes) ==
  IF isMemory(s)
  THEN [s EXCEPT !.m_data[Len(s.m_data)] =
          [j \in 1..s.m_chunk_size |->
             IF j > s.data /\ j <= s.data + s.len THEN bytes[j - s.data] ELSE @[j]]]
  ELSE [s EXCEPT !.buffer_ =
          [j \in 1..s.bufferSize_ |->
             IF j > s.data /\ j <= s.data + s.len THEN bytes[j - s.data] ELSE @[j]]]

OutputStreams ==
  {[how |-> how, size |-> size] : how \in {"memory", "file"}, size \in 1..MaxChunk}

InitO ==
  /\ schema \in OutputStreams
  /\ reader = schema
  /\ enc = IF schema.how = "memory" THEN memoryOutputStream(schema.size)
           ELSE BufferCopyOutputStream(schema.size)
  /\ dec = NoDecoder
  /\ phase = "out"
  /\ encLog = <<>>
  /\ decLog = <<>>
  /\ lastOp = NoOp

OutReady == phase = "out" /\ Len(decLog) < MaxOutCalls

\* What the sink does with a write, if the call comes to one.
SinkOutcomes(s, name) ==
  IF ~isMemory(s) /\ (name = "flush" \/ s.available_ = 0) THEN BOOLEAN ELSE {TRUE}

nexted(s1) == filled(s1, ClientBytes(Len(decLog) + 1, s1.len))

\* The client calls next(&data, &len) and writes len bytes at data.
OutNext ==
  /\ OutReady
  /\ \E written \in SinkOutcomes(enc, "next") :
       /\ enc' = IF OutputStream_next(enc, written).thrown THEN OutputStream_next(enc, written)
                 ELSE nexted(OutputStream_next(enc, written))
       /\ decLog' = Append(decLog, IF enc'.thrown THEN StreamCall("thrown", 0, 0)
                                   ELSE StreamCall("next", enc'.len, enc'.len))
       /\ encLog' = IF enc'.thrown THEN encLog
                    ELSE encLog \o ClientBytes(Len(decLog) + 1, enc'.len)
  /\ lastOp' = Op("out", "next", "none")
  /\ UNCHANGED <<schema, reader, dec, phase>>

\* The client calls backup(len), giving back the last bytes of what the
\* last next() handed out.
OutBackup ==
  /\ OutReady
  /\ \E len \in 1..undoLeft :
       /\ enc' = OutputStream_backup(enc, len)
       /\ decLog' = Append(decLog, StreamCall("backup", len, undoLeft - len))
       /\ encLog' = SubSeq(encLog, 1, Len(encLog) - len)
  /\ lastOp' = Op("out", "backup", "none")
  /\ UNCHANGED <<schema, reader, dec, phase>>

\* The client calls flush().
OutFlush ==
  /\ OutReady
  /\ \E written \in SinkOutcomes(enc, "flush") :
       /\ enc' = OutputStream_flush(enc, written)
       /\ decLog' = Append(decLog, StreamCall(IF enc'.thrown THEN "thrown" ELSE "flush", 0, 0))
  /\ lastOp' = Op("out", "flush", "none")
  /\ UNCHANGED <<schema, reader, dec, phase, encLog>>

NextO == OutNext \/ OutBackup \/ OutFlush

SpecO == InitO /\ [][NextO]_vars

\* The bytes handed out by the first i calls less those given back.
RECURSIVE Kept(_)
Kept(i) ==
  IF i = 0 THEN 0
  ELSE CASE decLog[i].name = "next" -> Kept(i - 1) + decLog[i].len
         [] decLog[i].name = "backup" -> Kept(i - 1) - decLog[i].len
         [] OTHER -> Kept(i - 1)

\* All that an input stream delivers, read to its end.
RECURSIVE readAll(_)
delivered(s1) == IF s1.ok THEN s1.data \o readAll(s1) ELSE <<>>

readAll(s) == delivered(InputStream_next(s, 0))

(***************************************************************************)
(* C37.  After any next and backup calls on a memory output stream,        *)
(* byteCount() is the bytes handed out by next less the bytes backed up,   *)
(* and snapshot and memoryInputStream over the stream give byteCount()     *)
(* bytes, those written, in order across the chunks.                       *)
(***************************************************************************)
MemoryOutputKept ==
  (phase = "out" /\ isMemory(enc)) =>
    /\ MemoryOutputStream_byteCount(enc) = Kept(Len(decLog))
    /\ Len(encLog) = MemoryOutputStream_byteCount(enc)
    /\ snapshot(enc) = encLog
    /\ readAll(memoryInputStream(enc)) = encLog

\* Chunks of 2 bytes: two chunks were handed out and written, and the last
\* byte of the second was given back.
MemoryOutputKeptWitness ==
  /\ phase = "out" /\ isMemory(enc) /\ enc.m_chunk_size = 2
  /\ Len(enc.m_data) = 2 /\ Len(encLog) = 3
  /\ \E i \in 1..Len(decLog) : decLog[i].name = "backup"
  /\ decLog[Len(decLog)].name = "backup"

(***************************************************************************)
(* C38.  After every next, backup and flush of a BufferCopyOutputStream,   *)
(* byteCount_ is the number of bytes written to the sink plus bufferSize_  *)
(* less available_.                                                        *)
(***************************************************************************)
BufferCountInvariant ==
  (phase = "out" /\ ~isMemory(enc)) =>
    /\ enc.byteCount_ = Len(enc.out_) + enc.bufferSize_ - enc.available_
    /\ BufferCopyOutputStream_byteCount(enc) = Kept(Len(decLog))
    /\ enc.out_ \o SubSeq(enc.buffer_, 1, enc.bufferSize_ - enc.available_) = encLog

\* A full buffer was flushed, and part of the next one given back.
BufferCountWitness ==
  /\ phase = "out" /\ ~isMemory(enc)
  /\ enc.out_ # <<>> /\ enc.available_ = 1 /\ enc.bufferSize_ = 2
  /\ decLog[Len(decLog)].name = "backup"
  /\ \E i \in 1..Len(decLog) : decLog[i].name = "flush"

(***************************************************************************)
(* The schema compiler.  A JSON entity is a string, an object with its     *)
(* "type", "name" and "fields" (each field a name and the entity of its    *)
(* type), or a number.  The nodes made are kept in a heap and a NodePtr is *)
(* a place in it, 0 the empty NodePtr; st is the symbol table, pairs of a  *)
(* name and the NodePtr registered for it.  "" stands for a JSON field     *)
(* that is not there.                                                      *)
(***************************************************************************)
JsonString(t) == [kind |-> "string", type |-> t, name |-> "", fields |-> <<>>]

JsonObject(t, n, fs) == [kind |-> "object", type |-> t, name |-> n, fields |-> fs]

JsonLong == [kind |-> "long", type |-> "", name |-> "", fields |-> <<>>]

JsonField(n, t) == [name |-> n, type |-> t]

\* What compileJsonSchemaFromStream starts with: no node, an empty table.
NoSymbols == [heap |-> <<>>, st |-> {}, err |-> "", ret |-> 0]

registered(st, n) == \E q \in st : q[1] = n

registeredAs(st, n) == (CHOOSE q \in st : q[1] = n)[2]

\* st[nm] = result
register(st, n, ptr) == {q \in st : q[1] # n} \cup {<<n, ptr>>}

\* makePrimitive(t): the empty NodePtr for a name that is no primitive.
makePrimitive(c, t) == IF t \in PrimitiveTypes THEN alloc(c, Prim(t)) ELSE [c EXCEPT !.ret = 0]

\* makeNode(const std::string&, st, ns)
makeNodeNamed(c, t) ==
  IF t \in PrimitiveTypes THEN makePrimitive(c, t)
  ELSE IF registered(c.st, t) THEN alloc(c, NodeSymbolic(t, registeredAs(c.st, t)))
  ELSE fail(c, "Unknown type")

RECURSIVE makeNode(_, _)

RECURSIVE makeFields(_, _, _, _)

\* new NodeRecord(name, fieldValues, fieldNames, defaultValues)
recordMade(c, r) == IF r.err # "" THEN fail(c, r.err) ELSE alloc(c, r.node)

fieldMade(c1, e, i, ptrs) == makeFields(c1, e, i + 1, Append(ptrs, c1.ret))

\* makeRecordNode: the loop over "fields", then the constructor.
makeFields(c, e, i, ptrs) ==
  IF c.err # "" THEN c
  ELSE IF i > Len(e.fields)
  THEN recordMade(c, NodeRecord(e.name, ptrs, [k \in 1..Len(e.fields) |-> e.fields[k].name],
                                NoDefaults(Len(e.fields))))
  ELSE fieldMade(makeNode(c, e.fields[i].type), e, i, ptrs)

makeRecordNode(c, e) == makeFields(c, e, 1, <<>>)

\* result = NodePtr(new NodeRecord()); st[nm] = result
placed(c1, nm) == [c1 EXCEPT !.st = register(c1.st, nm, c1.ret)]

\* r->swap(*result); return result
swapped(c2, result) ==
  IF c2.err # "" THEN c2
  ELSE [c2 EXCEPT !.heap = [@ EXCEPT ![result] = c2.heap[c2.ret], ![c2.ret] = c2.heap[result]],
                  !.ret = result]

\* A bug: the record is registered when its fields have been compiled.
makeNodeObjectLate(c, e) ==
  IF e.type = "" THEN fail(c, "Missing Json field")
  ELSE IF e.type \in PrimitiveTypes THEN makePrimitive(c, e.type)
  ELSE IF e.type \in {"record", "error", "enum", "fixed"}
  THEN IF e.name = "" THEN fail(c, "Missing Json field")
       ELSE IF e.type \in {"record", "error"}
       THEN placed(swapped(makeRecordNode(alloc(c, RecordSchema("")), e),
                           Len(c.heap) + 1), e.name)
       ELSE [c EXCEPT !.ret = 0]
  ELSE fail(c, "Unknown type definition")

\* makeNode(const Entity&, const Object&, st, ns)
makeNodeObject(c, e) ==
  IF e.type = "" THEN fail(c, "Missing Json field")
  ELSE IF e.type \in PrimitiveTypes THEN makePrimitive(c, e.type)
  ELSE IF e.type \in {"record", "error", "enum", "fixed"}
  THEN IF e.name = "" THEN fail(c, "Missing Json field")
       ELSE IF e.type \in {"record", "error"}
       THEN swapped(makeRecordNode(placed(alloc(c, RecordSchema("")), e.name), e),
                    Len(c.heap) + 1)
       ELSE [c EXCEPT !.ret = 0]
  ELSE fail(c, "Unknown type definition")

\* makeNode(const json::Entity&, st, ns)
makeNode(c, e) ==
  IF c.err # "" THEN c
  ELSE CASE e.kind = "string" -> makeNodeNamed(c, e.type)
         [] e.kind = "object" -> makeNodeObject(c, e)
         [] OTHER -> fail(c, "Invalid Avro type")

\* compileJsonSchemaFromStream, up to the node that ValidSchema is made of.
compileJsonSchemaFromStream(e) == makeNode(NoSymbols, e)

(***************************************************************************)
(* The runs that compile one schema.                                       *)
(***************************************************************************)
RecordS ==
  JsonObject("record", "S", <<JsonField("v", JsonString("long")),
                              JsonField("up", JsonString("R"))>>)

\* The types of the fields of the record R that is compiled.
FieldTypes ==
  {JsonString("int"), JsonString("string"), JsonString("R"), JsonString("S"),
   JsonString("E"), JsonObject("int", "", <<>>), RecordS,
   JsonObject("record", "S", <<JsonField("v", JsonString("S"))>>),
   JsonObject("enum", "E", <<>>), JsonObject("fixed", "F", <<>>)}

RecordsR ==
  {JsonObject(t, "R", <<JsonField("a", x)>>) : t \in {"record", "error"}, x \in FieldTypes}
  \cup {JsonObject("record", "R", <<JsonField("a", x), JsonField("b", y)>>) :
          x \in FieldTypes, y \in FieldTypes}

SchemaTexts ==
  RecordsR
  \cup {JsonString(t) : t \in PrimitiveTypes \cup {"R"}}
  \cup {JsonObject(t, "", <<>>) : t \in PrimitiveTypes}
  \cup {JsonObject("enum", "E", <<>>), JsonObject("fixed", "F", <<>>),
        JsonObject("array", "", <<>>), JsonObject("record", "", <<>>),
        JsonObject("", "R", <<>>), JsonLong,
        JsonObject("record", "R", <<JsonField("a", JsonString("int")),
                                    JsonField("a", JsonString("long"))>>)}

InitM ==
  /\ schema \in SchemaTexts
  /\ reader = schema
  /\ enc = NoDecoder
  /\ dec = NoSymbols
  /\ phase = "json"
  /\ encLog = <<>>
  /\ decLog = <<>>
  /\ lastOp = NoOp

\* The client compiles the schema.
Compile ==
  /\ phase = "json"
  /\ dec' = compileJsonSchemaFromStream(schema)
  /\ phase' = "compiled"
  /\ lastOp' = Op("compiler", "compile", "none")
  /\ UNCHANGED <<schema, reader, enc, encLog, decLog>>

\* The client follows a symbolic node of the compiled schema to its target.
Follow ==
  /\ phase = "compiled" /\ dec.err = ""
  /\ \E ptr \in 1..Len(dec.heap) :
       /\ dec.heap[ptr].type = "symbolic"
       /\ dec' = [dec EXCEPT !.ret = dec.heap[ptr].actualNode_]
       /\ lastOp' = Op("compiler", "getNode", dec.heap[ptr].name)
  /\ phase' = "followed"
  /\ UNCHANGED <<schema, reader, enc, encLog, decLog>>

NextM == Compile \/ Follow

SpecM == InitM /\ [][NextM]_vars

(***************************************************************************)
(* C39.  Compiling a JSON type definition object gives a schema node that  *)
(* is not empty, or fails with an exception, for each "type" that is       *)
(* accepted: a primitive name, record, error, enum or fixed.               *)
(***************************************************************************)
CompiledNodeNotEmpty ==
  (phase = "compiled" /\ schema.kind = "object" /\ dec.err = "") => dec.ret # 0

\* The definitions of records and the names used as types, in the order in
\* which the JSON text has them.
RECURSIVE events(_)

RECURSIVE fieldEvents(_, _)
fieldEvents(fs, i) ==
  IF i > Len(fs) THEN <<>> ELSE events(fs[i].type) \o fieldEvents(fs, i + 1)

events(e) ==
  IF e.kind = "string" THEN <<[ev |-> "ref", name |-> e.type, fields |-> 0]>>
  ELSE IF e.kind = "object" /\ e.type \in {"record", "error"}
  THEN <<[ev |-> "def", name |-> e.name, fields |-> Len(e.fields)]>> \o fieldEvents(e.fields, 1)
  ELSE <<>>

\* A name is used as a type that is no primitive and has no definition of
\* a record before it.
UnknownName(evs) ==
  \E i \in 1..Len(evs) :
    /\ evs[i].ev = "ref" /\ evs[i].name \notin PrimitiveTypes
    /\ ~\E j \in 1..(i - 1) : evs[j].ev = "def" /\ evs[j].name = evs[i].name

\* The schema is a record R of fields with names of their own.
PlainRecord == schema \in RecordsR

(***************************************************************************)
(* C40.  A record is in the symbol table before its fields are compiled:   *)
(* a field that names the enclosing record (or one defined before it) is   *)
(* a symbolic node and its target is, when the compilation is over, the    *)
(* record of that name with all its fields.  A name that is no primitive   *)
(* and not in the table fails with "Unknown type".                         *)
(***************************************************************************)
EnclosingRecordKnown ==
  (phase # "json" /\ PlainRecord) =>
    /\ dec.err = "Unknown type" <=> UnknownName(events(schema))
    /\ dec.err = "" =>
         \A ptr \in 1..Len(dec.heap) :
           dec.heap[ptr].type = "symbolic" =>
             /\ dec.heap[dec.heap[ptr].actualNode_].type = "record"
             /\ dec.heap[dec.heap[ptr].actualNode_].name = dec.heap[ptr].name
             /\ \E i \in 1..Len(events(schema)) :
                  /\ events(schema)[i].ev = "def"
                  /\ events(schema)[i].name = dec.heap[ptr].name
                  /\ events(schema)[i].fields = Len(dec.heap[dec.heap[ptr].actualNode_].leaves)
    /\ (phase = "followed") =>
         /\ dec.heap[dec.ret].name = lastOp.kind
         /\ dec.heap[dec.ret].leaves # <<>>

\* Record R {a: int, b: R}: field b is a symbolic node, followed to R with
\* its two fields.
EnclosingRecordWitness ==
  /\ schema = JsonObject("record", "R", <<JsonField("a", JsonString("int")),
                                          JsonField("b", JsonString("R"))>>)
  /\ phase = "followed" /\ dec.err = ""
  /\ dec.heap[dec.ret].names = <<"a", "b">>
  /\ dec.heap[dec.heap[dec.ret].leaves[2]].type = "symbolic"
  /\ dec.heap[dec.heap[dec.ret].leaves[2]].actualNode_ = dec.ret

\* Record R {a: S}: no S is known.
UnknownTypeWitness ==
  /\ schema = JsonObject("record", "R", <<JsonField("a", JsonString("S"))>>)
  /\ phase = "compiled" /\ dec.err = "Unknown type"

====
